---- MODULE Spec2Model ----
(***************************************************************************)
(* Model of the YesBut coordination engine.                                *)
(*                                                                         *)
(*   Spec      : BranchLockService over its Redis store                    *)
(*   LiveSpec  : the lock service with holders that crash, Redis' clock    *)
(*               running                                                   *)
(*   WriteSpec : Spec together with the branch and node writes of          *)
(*               GraphService                                              *)
(*   PhaseSpec : SessionService phase/status handling and the stages of    *)
(*               AgentOrchestrator.run                                     *)
(*   CtlSpec   : ConvergenceController                                     *)
(*   DetSpec   : OscillationDetector                                       *)
(*   StreamSpec: StreamManager, one publisher and one subscriber           *)
(*   GaSpec    : GameArbiterAgent.compute_resource_allocation              *)
(*   GraphSpec : GraphService node and edge operations of two clients      *)
(*   AcaSpec   : AuditComplianceAgent.run                                  *)
(*   ParetoSpec: the Pareto fronts of ParetoOptimizer and the arbiter      *)
(*   PathSpec  : PathAnalyzer and SensitivityAnalyzer on one graph         *)
(*   FindSpec  : find_all_paths between any two nodes of one graph         *)
(*   ReadSpec  : Spec together with get_lock_state                         *)
(*   NotifySpec: acquire, release and interrupt with their pub/sub         *)
(*               notifications as steps of their own                       *)
(*   ArbSpec   : the stages of one round of GameArbiterAgent.run           *)
(*                                                                         *)
(* Time is counted in ticks; a record's ttl is the number of ticks it has  *)
(* left. Pub/sub notifications are part of the state in NotifySpec only.   *)
(***************************************************************************)
EXTENDS Integers, Sequences, FiniteSets, TLC

VARIABLES
    lock,            \* Redis keys yesbut:lock:branch:<id> -> record with its TTL
    session_locks,   \* Redis list yesbut:session:<sid>:locks
    branches,        \* keys of session["branches"]
    nodes,           \* session["nodes"]: the nodes, each with its branch_id
    intr,            \* per user: position of a running trigger_global_interrupt
    crashed,         \* actors that stopped issuing calls
    ret,             \* the lock call that returned last, with its return value
    status,          \* session["status"]
    phase,           \* session["phase"]
    phase_progress,  \* session["phase_progress"], in tenths
    orch_pc,         \* position of AgentOrchestrator.run
    orch_phase,      \* AgentOrchestrator.state["phase"]
    max_rounds,      \* ConvergenceController.max_rounds
    round_count,     \* ConvergenceController.round_count
    position_history,     \* ConvergenceController.position_history
    entropy_history,      \* ConvergenceController.entropy_history
    det_position_history, \* OscillationDetector.position_history
    det_entropy_history,  \* OscillationDetector.entropy_history
    event_history,   \* StreamManager._event_history[session_id]: event ids
    stream_open,     \* session_id in StreamManager.session_streams
    queue,           \* StreamManager.session_streams[session_id]
    published,       \* every event id published for the session, in order
    sub,             \* the consumer's subscribe_session generator
    received,        \* the event ids the consumer was handed since it subscribed
    last_seen,       \* id of the last event the consumer saw, 0 when none
    ga_branches,     \* compute_resource_allocation: its branches argument
    ga_front,        \* compute_resource_allocation: ids of its pareto_front argument
    allocation,      \* the allocations returned so far, as a sequence
    graph,           \* the stored session: its "nodes" and "edges"
    loaded,          \* per client: the session get_session handed it
    node_ids_used,   \* number of node ids drawn so far
    edge_ids_used,   \* number of edge ids drawn so far
    aca_edges,       \* AuditComplianceAgent.run: the edges of graph_state
    aca_checks,      \* results of the consistency and constraint checks
    aca_events,      \* the events run has yielded, or the exception it raised
    pf_solutions,    \* the candidates handed to compute_pareto_front
    pf_directions,   \* ParetoOptimizer.directions
    pf_front,        \* the fronts ParetoOptimizer returned, as a sequence
    ga_pareto,       \* the fronts GameArbiterAgent returned, as a sequence
    pa_graph,        \* the graph handed to the path analyzers
    pa_analysis,     \* what PathAnalyzer returned, as a sequence
    sa_analysis,     \* what SensitivityAnalyzer returned, as a sequence
    pa_found,        \* what a call of find_all_paths returned, as a sequence
    arb_controller,  \* GameArbiterAgent.convergence_controller is set
    arb_round,       \* GameArbiterAgent.round_number
    arb_pc,          \* where GameArbiterAgent.run stands
    arb_events,      \* the event types run has yielded in its current round
    publishing,      \* per caller, the lock_changed notification it is about to publish
    lock_events      \* per branch, the state of the last lock_changed published

lockVars  == <<lock, session_locks, branches, nodes, intr, crashed>>
phaseVars == <<status, phase, phase_progress, orch_pc, orch_phase>>
ctlVars   == <<max_rounds, round_count, position_history, entropy_history>>
detVars   == <<det_position_history, det_entropy_history>>
streamVars == <<event_history, stream_open, queue, published, sub,
                received, last_seen>>
gaVars    == <<ga_branches, ga_front, allocation>>
graphVars == <<graph, loaded, node_ids_used, edge_ids_used>>
acaVars   == <<aca_edges, aca_checks, aca_events>>
pfVars    == <<pf_solutions, pf_directions, pf_front, ga_pareto>>
paVars    == <<pa_graph, pa_analysis, sa_analysis, pa_found>>
arbVars   == <<arb_controller, arb_round, arb_pc, arb_events>>
pubVars   == <<publishing, lock_events>>
extVars   == <<ctlVars, detVars, streamVars, gaVars, graphVars, acaVars,
               pfVars, paVars, arbVars, pubVars>>
vars      == <<lock, session_locks, branches, nodes, intr, crashed, ret,
               status, phase, phase_progress, orch_pc, orch_phase,
               max_rounds, round_count, position_history, entropy_history,
               det_position_history, det_entropy_history,
               event_history, stream_open, queue, published, sub,
               received, last_seen, ga_branches, ga_front, allocation,
               graph, loaded, node_ids_used, edge_ids_used,
               aca_edges, aca_checks, aca_events,
               pf_solutions, pf_directions, pf_front, ga_pareto,
               pa_graph, pa_analysis, sa_analysis, pa_found,
               arb_controller, arb_round, arb_pc, arb_events,
               publishing, lock_events>>

----------------------------------------------------------------------------
(* Bounds *)

DefaultTtl == 2      \* default_ttl (300 s in the source), in ticks
MaxReqTtl  == 1      \* largest explicit ttl a caller passes
MaxExtra   == 1      \* largest additional_ttl a caller passes
MaxTtl     == 2      \* cap on a record's remaining TTL
MaxRegs    == 2      \* cap on the length of the session's lock list
MaxNodes   == 1      \* cap on the number of nodes written
MaxCrashed == 1      \* cap on the number of crashed actors
ProgressSteps == 2   \* phase_progress 1.0, in steps
MaxRecorded == 4     \* cap on the number of rounds recorded
MaxEntropy == 3      \* largest entropy recorded, in levels
MaxEvents == 4       \* cap on the number of events published
MaxHistory == 2      \* _max_history (100 in the source)
MaxBranches == 3     \* cap on the number of branches allocated to
Grid == 100          \* grid values per unit: the precision of the arithmetic
MaxGraphNodes == 2   \* cap on the number of node ids drawn
MaxGraphEdges == 2   \* cap on the number of edge ids drawn
MaxAcaEdges == 3     \* cap on the number of edges audited
MaxCandidates == 3   \* cap on the number of candidates of a front
MaxRoundsRun == 11  \* cap on the number of rounds of the arbiter
MaxPathEdges == 4   \* largest number of edges of a small analysed graph
MaxFindEdges == 3   \* largest number of edges of a small searched graph

(* max_depth of PathAnalyzer.find_all_paths *)
DefaultMaxDepth == 20

StagnationRounds == 3      \* stagnation_rounds
ControllerWindow == 3      \* entropy_history[-3:] of the controller
EntropyThreshold == 1      \* entropy_threshold (0.1), one level
SimilarityThreshold == 85  \* similarity_threshold (0.85), in percent
MaxRoundsChoices == 1..(MaxRecorded + 1)   \* the max_rounds a controller is built with

Agents    == {"a1", "a2"}
Users     == {"u1"}
Actors    == Agents \cup Users
BranchIds == {"b1", "b2"}
LiveBranchIds == {"b1"}   \* branches the calls of LiveSpec address

----------------------------------------------------------------------------
(* LockType, LockState *)

AGENT_WRITE  == "agent_write"
USER_WRITE   == "user_write"
GLOBAL_PAUSE == "global_pause"

EDITABLE    == "EDITABLE"
OBSERVATION == "OBSERVATION"
PAUSED      == "PAUSED"

NoLock   == [holder_id |-> "none", lock_type |-> "none", ttl |-> 0]
NoExpiry == -1
None     == "None"

(* lock_data / pause_data as built by the service, with the key's TTL *)
LockData(holder, type, ttl) ==
    [holder_id |-> holder, lock_type |-> type, ttl |-> ttl]

----------------------------------------------------------------------------
(* RedisClient *)

(* Variant: SET that does not honour NX *)
RedisSet_IgnoresNx(store, key, holder, type, ex, nx) ==
    [store  |-> [store EXCEPT ![key] = LockData(holder, type, ex)],
     result |-> TRUE]

(* RedisClient.set(key, value, ex=..., nx=...): the new store and the bool *)
(* the wrapper returns. ex = NoExpiry stands for a SET without EX.         *)
RedisSet(store, key, holder, type, ex, nx) ==
    IF nx /\ store[key] # NoLock
    THEN [store |-> store, result |-> FALSE]
    ELSE [store  |-> [store EXCEPT ![key] = LockData(holder, type, ex)],
          result |-> TRUE]

(* RedisClient.delete(key) *)
RedisDelete(store, key) == [store EXCEPT ![key] = NoLock]

(* The values TTL key can report for a live key: Redis rounds the          *)
(* remaining milliseconds to the nearest second.                           *)
RedisTtl(store, key) ==
    IF store[key] = NoLock THEN {-2}
    ELSE IF store[key].ttl = NoExpiry THEN {-1}
    ELSE {store[key].ttl - 1, store[key].ttl}

(* Variant: delete without comparing the holder *)
RELEASE_LOCK_SCRIPT_NoCompare(store, key, holder_id) ==
    IF store[key] = NoLock
    THEN [store |-> store, result |-> 0]
    ELSE [store |-> [store EXCEPT ![key] = NoLock], result |-> 1]

(* RELEASE_LOCK_SCRIPT *)
RELEASE_LOCK_SCRIPT(store, key, holder_id) ==
    IF store[key] = NoLock
    THEN [store |-> store, result |-> 0]
    ELSE IF store[key].holder_id = holder_id
         THEN [store |-> RedisDelete(store, key), result |-> 1]
         ELSE [store |-> store, result |-> 0]

(* Variant: extend without comparing the holder *)
EXTEND_TTL_SCRIPT_NoCompare(store, key, holder_id, additional_ttl, current_ttl) ==
    IF store[key] = NoLock
    THEN [store |-> store, result |-> 0]
    ELSE IF current_ttl > 0
         THEN [store  |-> [store EXCEPT ![key].ttl = current_ttl + additional_ttl],
               result |-> 1]
         ELSE [store |-> store, result |-> 0]

(* EXTEND_TTL_SCRIPT; current_ttl is what TTL key reported *)
EXTEND_TTL_SCRIPT(store, key, holder_id, additional_ttl, current_ttl) ==
    IF store[key] = NoLock
    THEN [store |-> store, result |-> 0]
    ELSE IF store[key].holder_id = holder_id /\ current_ttl > 0
         THEN [store  |-> [store EXCEPT ![key].ttl = current_ttl + additional_ttl],
               result |-> 1]
         ELSE [store |-> store, result |-> 0]

----------------------------------------------------------------------------
(* BranchLockService *)

Ret(op, val) == [op |-> op, val |-> val]

(* ttl or self.default_ttl; 0 stands for a call without ttl *)
LockTtl(ttl) == IF ttl = 0 THEN DefaultTtl ELSE ttl

(* Variant: an agent may re-acquire the branch it already holds *)
AcquireAgentLock_Reentrant(branch_id, agent_id, ttl) ==
    LET r == RedisSet(lock, branch_id, agent_id, AGENT_WRITE, LockTtl(ttl),
                      lock[branch_id].holder_id # agent_id)
    IN  /\ agent_id \notin crashed
        /\ lock' = r.store
        /\ ret' = Ret("acquire_agent_lock", r.result)
        /\ UNCHANGED <<session_locks, branches, nodes, intr, crashed>>
        /\ UNCHANGED <<phaseVars, extVars>>

AcquireAgentLock(branch_id, agent_id, ttl) ==
    LET r == RedisSet(lock, branch_id, agent_id, AGENT_WRITE, LockTtl(ttl), TRUE)
    IN  /\ agent_id \notin crashed
        /\ lock' = r.store
        /\ ret' = Ret("acquire_agent_lock", r.result)
        /\ UNCHANGED <<session_locks, branches, nodes, intr, crashed>>
        /\ UNCHANGED <<phaseVars, extVars>>

ReleaseLock(branch_id, holder_id) ==
    LET r == RELEASE_LOCK_SCRIPT(lock, branch_id, holder_id)
    IN  /\ holder_id \notin crashed
        /\ lock' = r.store
        /\ ret' = Ret("release_lock", r.result = 1)
        /\ UNCHANGED <<session_locks, branches, nodes, intr, crashed>>
        /\ UNCHANGED <<phaseVars, extVars>>

(* Variant: the user's request overrides an agent's lock *)
RequestUserLock_OverAgent(branch_id, user_id, ttl) ==
    LET r == RedisSet(lock, branch_id, user_id, USER_WRITE, LockTtl(ttl),
                      lock[branch_id].lock_type # AGENT_WRITE)
    IN  /\ user_id \notin crashed
        /\ lock' = r.store
        /\ ret' = Ret("request_user_lock", r.result)
        /\ UNCHANGED <<session_locks, branches, nodes, intr, crashed>>
        /\ UNCHANGED <<phaseVars, extVars>>

RequestUserLock(branch_id, user_id, ttl) ==
    LET r == RedisSet(lock, branch_id, user_id, USER_WRITE, LockTtl(ttl), TRUE)
    IN  /\ user_id \notin crashed
        /\ lock' = r.store
        /\ ret' = Ret("request_user_lock", r.result)
        /\ UNCHANGED <<session_locks, branches, nodes, intr, crashed>>
        /\ UNCHANGED <<phaseVars, extVars>>

(* Variant: EXPIRE key additional_ttl, dropping the remaining time *)
ExtendLockTtl_Replaces(branch_id, holder_id, additional_ttl) ==
    \E current_ttl \in RedisTtl(lock, branch_id) :
        LET r == EXTEND_TTL_SCRIPT(lock, branch_id, holder_id,
                                   additional_ttl, current_ttl)
        IN  /\ holder_id \notin crashed
            /\ current_ttl + additional_ttl <= MaxTtl
            /\ lock' = IF r.result = 1
                       THEN [lock EXCEPT ![branch_id].ttl = additional_ttl]
                       ELSE lock
            /\ ret' = Ret("extend_lock_ttl", r.result = 1)
            /\ UNCHANGED <<session_locks, branches, nodes, intr, crashed>>
            /\ UNCHANGED <<phaseVars, extVars>>

ExtendLockTtl(branch_id, holder_id, additional_ttl) ==
    \E current_ttl \in RedisTtl(lock, branch_id) :
        LET r == EXTEND_TTL_SCRIPT(lock, branch_id, holder_id,
                                   additional_ttl, current_ttl)
        IN  /\ holder_id \notin crashed
            /\ current_ttl + additional_ttl <= MaxTtl
            /\ lock' = r.store
            /\ ret' = Ret("extend_lock_ttl", r.result = 1)
            /\ UNCHANGED <<session_locks, branches, nodes, intr, crashed>>
            /\ UNCHANGED <<phaseVars, extVars>>

(* Variant: every record but a pause reads as an agent's *)
GetLockState_UserObserves(store, branch_id) ==
    IF store[branch_id] = NoLock THEN EDITABLE
    ELSE IF store[branch_id].lock_type = GLOBAL_PAUSE THEN PAUSED
    ELSE OBSERVATION

(* get_lock_state(branch_id)["state"]; reads only *)
GetLockState(store, branch_id) ==
    IF store[branch_id] = NoLock THEN EDITABLE
    ELSE IF store[branch_id].lock_type = GLOBAL_PAUSE THEN PAUSED
    ELSE IF store[branch_id].lock_type = AGENT_WRITE THEN OBSERVATION
    ELSE EDITABLE

(* check_user_can_edit(branch_id); reads only *)
CheckUserCanEdit(store, branch_id) ==
    IF store[branch_id] = NoLock THEN TRUE
    ELSE store[branch_id].lock_type = USER_WRITE

Idle == [pc |-> "idle", todo |-> <<>>]

(* trigger_global_interrupt up to and including lrange: publishes the      *)
(* interrupt signal and reads the session's list of branches.              *)
TriggerGlobalInterrupt(user_id) ==
    /\ user_id \notin crashed
    /\ intr[user_id].pc = "idle"
    /\ intr' = [intr EXCEPT ![user_id] =
                   IF session_locks = <<>> THEN Idle
                   ELSE [pc |-> "delete", todo |-> session_locks]]
    /\ ret' = IF session_locks = <<>>
              THEN Ret("trigger_global_interrupt", None)
              ELSE ret
    /\ UNCHANGED <<lock, session_locks, branches, nodes, crashed>>
    /\ UNCHANGED <<phaseVars, extVars>>

(* loop body, first await: redis.delete(lock_key) *)
InterruptDelete(user_id) ==
    /\ intr[user_id].pc = "delete"
    /\ lock' = RedisDelete(lock, Head(intr[user_id].todo))
    /\ intr' = [intr EXCEPT ![user_id].pc = "set"]
    /\ UNCHANGED <<session_locks, branches, nodes, crashed, ret>>
    /\ UNCHANGED <<phaseVars, extVars>>

(* Variant: the pause record is written without ex= *)
InterruptSet_NoExpiry(user_id) ==
    LET branch_id == Head(intr[user_id].todo)
        rest      == Tail(intr[user_id].todo)
        r == RedisSet(lock, branch_id, user_id, GLOBAL_PAUSE, NoExpiry, FALSE)
    IN  /\ intr[user_id].pc = "set"
        /\ lock' = r.store
        /\ intr' = [intr EXCEPT ![user_id] =
                       IF rest = <<>> THEN Idle
                       ELSE [pc |-> "delete", todo |-> rest]]
        /\ ret' = IF rest = <<>>
                  THEN Ret("trigger_global_interrupt", None)
                  ELSE ret
        /\ UNCHANGED <<session_locks, branches, nodes, crashed>>
        /\ UNCHANGED <<phaseVars, extVars>>

(* loop body, second await: redis.set(lock_key, pause_data, ex=default_ttl) *)
(* and the publish; after the last branch the call returns.                *)
InterruptSet(user_id) ==
    LET branch_id == Head(intr[user_id].todo)
        rest      == Tail(intr[user_id].todo)
        r == RedisSet(lock, branch_id, user_id, GLOBAL_PAUSE, DefaultTtl, FALSE)
    IN  /\ intr[user_id].pc = "set"
        /\ lock' = r.store
        /\ intr' = [intr EXCEPT ![user_id] =
                       IF rest = <<>> THEN Idle
                       ELSE [pc |-> "delete", todo |-> rest]]
        /\ ret' = IF rest = <<>>
                  THEN Ret("trigger_global_interrupt", None)
                  ELSE ret
        /\ UNCHANGED <<session_locks, branches, nodes, crashed>>
        /\ UNCHANGED <<phaseVars, extVars>>

RegisterBranchForSession(branch_id) ==
    /\ Len(session_locks) < MaxRegs
    /\ session_locks' = Append(session_locks, branch_id)
    /\ UNCHANGED <<lock, branches, nodes, intr, crashed, ret>>
    /\ UNCHANGED <<phaseVars, extVars>>

(* LREM key 0 branch_id: removes every occurrence *)
UnregisterBranchForSession(branch_id) ==
    /\ session_locks' = SelectSeq(session_locks, LAMBDA b : b # branch_id)
    /\ UNCHANGED <<lock, branches, nodes, intr, crashed, ret>>
    /\ UNCHANGED <<phaseVars, extVars>>

(* One second passes: every key's TTL drops, a key at its last second goes *)
Tick ==
    /\ \E b \in BranchIds : lock[b] # NoLock /\ lock[b].ttl # NoExpiry
    /\ lock' = [b \in BranchIds |->
                  IF lock[b] = NoLock \/ lock[b].ttl = NoExpiry THEN lock[b]
                  ELSE IF lock[b].ttl = 1 THEN NoLock
                  ELSE [lock[b] EXCEPT !.ttl = lock[b].ttl - 1]]
    /\ UNCHANGED <<session_locks, branches, nodes, intr, crashed, ret>>
    /\ UNCHANGED <<phaseVars, extVars>>

----------------------------------------------------------------------------
(* GraphService *)

(* create_branch: adds the branch to session["branches"] *)
CreateBranch(branch_id) ==
    /\ branch_id \notin branches
    /\ branches' = branches \cup {branch_id}
    /\ UNCHANGED <<lock, session_locks, nodes, intr, crashed, ret>>
    /\ UNCHANGED <<phaseVars, extVars>>

(* create_node(branch_id=...) called on behalf of writer *)
CreateNode(writer, branch_id) ==
    /\ writer \notin crashed
    /\ branch_id \in branches
    /\ Cardinality(nodes) < MaxNodes
    /\ nodes' = nodes \cup {[id |-> Cardinality(nodes) + 1, branch_id |-> branch_id]}
    /\ UNCHANGED <<lock, session_locks, branches, intr, crashed, ret>>
    /\ UNCHANGED <<phaseVars, extVars>>

----------------------------------------------------------------------------
InitLock ==
    /\ lock = [b \in BranchIds |-> NoLock]
    /\ session_locks = <<>>
    /\ branches = {"b1"}
    /\ nodes = {}
    /\ intr = [u \in Users |-> Idle]
    /\ crashed = {}
    /\ ret = Ret("init", None)

InitPhase ==
    /\ status = "draft"
    /\ phase = "divergence"
    /\ phase_progress = 0
    /\ orch_pc = "idle"
    /\ orch_phase = "none"

InitCtl ==
    /\ max_rounds = 10
    /\ round_count = 0
    /\ position_history = <<>>
    /\ entropy_history = <<>>

InitDet ==
    /\ det_position_history = <<>>
    /\ det_entropy_history = <<>>

NoSub == [pc |-> "none", list |-> <<>>, alias |-> FALSE, idx |-> 0,
          resumed_at |-> -1]

InitStream ==
    /\ event_history = <<>>
    /\ stream_open = FALSE
    /\ queue = <<>>
    /\ published = <<>>
    /\ sub = NoSub
    /\ received = <<>>
    /\ last_seen = 0

InitGa ==
    /\ ga_branches = <<>>
    /\ ga_front = {}
    /\ allocation = <<>>

(* create_session: the goal node at layer 0 without parent, no edge *)
Clients  == {"c1", "c2"}
NoParent == 0
GoalId   == 1
GoalNode == 0     \* goal_node_id of the path analyzers

InitGraph ==
    /\ graph = [nodes |-> (GoalId :> [type |-> "goal", layer |-> 0,
                                       parent_id |-> NoParent]),
                edges |-> <<>>]
    /\ loaded = [c \in Clients |-> <<>>]
    /\ node_ids_used = 1
    /\ edge_ids_used = 0

InitAca ==
    /\ aca_edges = <<>>
    /\ aca_checks = [is_consistent |-> TRUE, hard_violation |-> FALSE]
    /\ aca_events = <<>>

InitPareto ==
    /\ pf_solutions = <<>>
    /\ pf_directions = <<"max", "max">>
    /\ pf_front = <<>>
    /\ ga_pareto = <<>>

InitPath ==
    /\ pa_graph = [nodes |-> {GoalNode}, edges |-> {}]
    /\ pa_analysis = <<>>
    /\ sa_analysis = <<>>
    /\ pa_found = <<>>

(* run is not running: no branches at hand *)
ArbIdle == [at |-> "idle", branch_count |-> 0, utilities_close |-> FALSE]

InitArb ==
    /\ arb_controller = FALSE
    /\ arb_round = 0
    /\ arb_pc = ArbIdle
    /\ arb_events = <<>>

(* the caller has nothing to publish *)
NoPub == [branch_id |-> "none", state |-> "none", op |-> "none"]

InitPub ==
    /\ publishing = [x \in Actors |-> NoPub]
    /\ lock_events = [b \in BranchIds |-> "none"]

Init ==
    /\ InitLock /\ InitPhase /\ InitCtl /\ InitDet /\ InitStream /\ InitGa
    /\ InitGraph /\ InitAca /\ InitPareto /\ InitPath /\ InitArb /\ InitPub

(* The calls of the lock service on the branches B, and the clock *)
NextOn(B) ==
    \/ \E b \in B, a \in Agents, t \in 0..MaxReqTtl : AcquireAgentLock(b, a, t)
    \/ \E b \in B, u \in Users, t \in 0..MaxReqTtl : RequestUserLock(b, u, t)
    \/ \E b \in B, h \in Actors : ReleaseLock(b, h)
    \/ \E b \in B, h \in Actors, x \in 1..MaxExtra : ExtendLockTtl(b, h, x)
    \/ \E u \in Users : TriggerGlobalInterrupt(u)
    \/ \E u \in Users : InterruptDelete(u)
    \/ \E u \in Users : InterruptSet(u)
    \/ \E b \in B : RegisterBranchForSession(b)
    \/ \E b \in B : UnregisterBranchForSession(b)
    \/ Tick

Next == NextOn(BranchIds)

Spec == Init /\ [][Next]_vars

(* A holder stops: it issues no further call *)
Crash(actor) ==
    /\ actor \notin crashed
    /\ Cardinality(crashed) < MaxCrashed
    /\ crashed' = crashed \cup {actor}
    /\ UNCHANGED <<lock, session_locks, branches, nodes, intr, ret>>
    /\ UNCHANGED <<phaseVars, extVars>>

(* The lock service with crashing holders; Redis' clock keeps running *)
LiveNext ==
    \/ NextOn(LiveBranchIds)
    \/ \E a \in Actors : Crash(a)

LiveSpec == Init /\ [][LiveNext]_vars /\ WF_vars(Tick)

(* a call of get_lock_state(branch_id): redis.get and redis.ttl only *)
CallGetLockState(branch_id) ==
    /\ ret' = Ret("get_lock_state", GetLockState(lock, branch_id))
    /\ UNCHANGED <<lock, session_locks, branches, nodes, intr, crashed>>
    /\ UNCHANGED <<phaseVars, extVars>>

(* The lock service with callers that read the lock state *)
ReadNext ==
    \/ Next
    \/ \E b \in BranchIds : CallGetLockState(b)

ReadSpec == Init /\ [][ReadNext]_vars

(* The lock calls with their notification: redis.set or evalsha first,    *)
(* redis.publish of lock_changed as a second command                       *)

Publication(branch_id, state, op) ==
    [branch_id |-> branch_id, state |-> state, op |-> op]

(* acquire_agent_lock up to and including redis.set(..., nx=True) *)
AcquireAgentLockSet(branch_id, agent_id) ==
    LET r == RedisSet(lock, branch_id, agent_id, AGENT_WRITE, DefaultTtl, TRUE)
    IN  /\ publishing[agent_id] = NoPub
        /\ lock' = r.store
        /\ publishing' =
               [publishing EXCEPT ![agent_id] =
                   IF r.result
                   THEN Publication(branch_id, OBSERVATION,
                                    "acquire_agent_lock")
                   ELSE NoPub]
        /\ ret' = IF r.result THEN ret
                  ELSE Ret("acquire_agent_lock", FALSE)
        /\ UNCHANGED <<session_locks, branches, nodes, intr, crashed>>
        /\ UNCHANGED <<lock_events, phaseVars, ctlVars, detVars, streamVars,
                       gaVars, graphVars, acaVars, pfVars, paVars, arbVars>>

(* release_lock up to and including the evalsha of RELEASE_LOCK_SCRIPT *)
ReleaseLockEval(branch_id, holder_id) ==
    LET r == RELEASE_LOCK_SCRIPT(lock, branch_id, holder_id)
    IN  /\ publishing[holder_id] = NoPub
        /\ lock' = r.store
        /\ publishing' =
               [publishing EXCEPT ![holder_id] =
                   IF r.result = 1
                   THEN Publication(branch_id, EDITABLE, "release_lock")
                   ELSE NoPub]
        /\ ret' = IF r.result = 1 THEN ret ELSE Ret("release_lock", FALSE)
        /\ UNCHANGED <<session_locks, branches, nodes, intr, crashed>>
        /\ UNCHANGED <<lock_events, phaseVars, ctlVars, detVars, streamVars,
                       gaVars, graphVars, acaVars, pfVars, paVars, arbVars>>

(* redis.publish of lock_changed, and the call returns True *)
PublishLockChanged(caller) ==
    /\ publishing[caller] # NoPub
    /\ lock_events' =
           [lock_events EXCEPT ![publishing[caller].branch_id] =
               publishing[caller].state]
    /\ publishing' = [publishing EXCEPT ![caller] = NoPub]
    /\ ret' = Ret(publishing[caller].op, TRUE)
    /\ UNCHANGED <<lock, session_locks, branches, nodes, intr, crashed>>
    /\ UNCHANGED <<phaseVars, ctlVars, detVars, streamVars,
                   gaVars, graphVars, acaVars, pfVars, paVars, arbVars>>

(* trigger_global_interrupt, loop body: redis.set of the pause record *)
InterruptSetPause(user_id) ==
    LET branch_id == Head(intr[user_id].todo)
        r == RedisSet(lock, branch_id, user_id, GLOBAL_PAUSE, DefaultTtl, FALSE)
    IN  /\ intr[user_id].pc = "set"
        /\ lock' = r.store
        /\ intr' = [intr EXCEPT ![user_id].pc = "publish"]
        /\ UNCHANGED <<session_locks, branches, nodes, crashed, ret>>
        /\ UNCHANGED <<phaseVars, extVars>>

(* trigger_global_interrupt, loop body: redis.publish of lock_changed; *)
(* after the last branch the call returns                                  *)
InterruptPublish(user_id) ==
    LET branch_id == Head(intr[user_id].todo)
        rest      == Tail(intr[user_id].todo)
    IN  /\ intr[user_id].pc = "publish"
        /\ lock_events' = [lock_events EXCEPT ![branch_id] = PAUSED]
        /\ intr' = [intr EXCEPT ![user_id] =
                       IF rest = <<>> THEN Idle
                       ELSE [pc |-> "delete", todo |-> rest]]
        /\ ret' = IF rest = <<>>
                  THEN Ret("trigger_global_interrupt", None)
                  ELSE ret
        /\ UNCHANGED <<lock, session_locks, branches, nodes, crashed>>
        /\ UNCHANGED <<publishing, phaseVars, ctlVars, detVars, streamVars,
                       gaVars, graphVars, acaVars, pfVars, paVars, arbVars>>

(* The lock calls that publish lock_changed, on one branch, with no time   *)
(* passing                                                                 *)
NotifyNext ==
    \/ \E b \in LiveBranchIds, a \in Agents : AcquireAgentLockSet(b, a)
    \/ \E b \in LiveBranchIds, h \in Actors : ReleaseLockEval(b, h)
    \/ \E x \in Actors : PublishLockChanged(x)
    \/ \E u \in Users : TriggerGlobalInterrupt(u)
    \/ \E u \in Users : InterruptDelete(u)
    \/ \E u \in Users : InterruptSetPause(u)
    \/ \E u \in Users : InterruptPublish(u)
    \/ \E b \in LiveBranchIds : RegisterBranchForSession(b)

NotifySpec == Init /\ [][NotifyNext]_vars

(* The lock service together with the graph writes of GraphService *)
WriteNext ==
    \/ Next
    \/ \E b \in BranchIds : CreateBranch(b)
    \/ \E w \in Actors, b \in BranchIds : CreateNode(w, b)

WriteSpec == Init /\ [][WriteNext]_vars

----------------------------------------------------------------------------
(* SessionService: status and phase of the session *)

Phases == {"divergence", "filtering", "convergence", "completed"}

(* Variant: the table lets divergence jump to convergence *)
ValidTransitions_Skips(current_phase) ==
    CASE current_phase = "divergence"  -> {"filtering", "convergence"}
      [] current_phase = "filtering"   -> {"convergence"}
      [] current_phase = "convergence" -> {"completed"}
      [] OTHER -> {}

(* valid_transitions.get(current_phase, []) *)
ValidTransitions(current_phase) ==
    CASE current_phase = "divergence"  -> {"filtering"}
      [] current_phase = "filtering"   -> {"convergence"}
      [] current_phase = "convergence" -> {"completed"}
      [] OTHER -> {}

ValueError == "ValueError"

StartSession ==
    /\ IF status # "draft"
       THEN /\ ret' = Ret("start_session", ValueError)
            /\ UNCHANGED status
       ELSE /\ status' = "active"
            /\ ret' = Ret("start_session", "active")
    /\ UNCHANGED <<phase, phase_progress, orch_pc, orch_phase>>
    /\ UNCHANGED <<lockVars, extVars>>

PauseSession ==
    /\ status' = "paused"
    /\ ret' = Ret("pause_session", "paused")
    /\ UNCHANGED <<phase, phase_progress, orch_pc, orch_phase>>
    /\ UNCHANGED <<lockVars, extVars>>

ResumeSession ==
    /\ status' = "active"
    /\ ret' = Ret("resume_session", "active")
    /\ UNCHANGED <<phase, phase_progress, orch_pc, orch_phase>>
    /\ UNCHANGED <<lockVars, extVars>>

CompleteSession ==
    /\ status' = "completed"
    /\ phase' = "completed"
    /\ phase_progress' = ProgressSteps
    /\ ret' = Ret("complete_session", "completed")
    /\ UNCHANGED <<orch_pc, orch_phase>>
    /\ UNCHANGED <<lockVars, extVars>>

TransitionPhase(target_phase, force) ==
    /\ IF target_phase \notin ValidTransitions(phase) /\ ~force
       THEN /\ ret' = Ret("transition_phase", ValueError)
            /\ UNCHANGED <<phase, phase_progress>>
       ELSE /\ phase' = target_phase
            /\ phase_progress' = 0
            /\ ret' = Ret("transition_phase", target_phase)
    /\ UNCHANGED <<status, orch_pc, orch_phase>>
    /\ UNCHANGED <<lockVars, extVars>>

(* min(1.0, max(0.0, progress)), in steps of 1/ProgressSteps *)
ClampProgress(progress) ==
    IF progress < 0 THEN 0
    ELSE IF progress > ProgressSteps THEN ProgressSteps
    ELSE progress

UpdatePhaseProgress(progress) ==
    /\ phase_progress' = ClampProgress(progress)
    /\ ret' = Ret("update_phase_progress", "session")
    /\ UNCHANGED <<status, phase, orch_pc, orch_phase>>
    /\ UNCHANGED <<lockVars, extVars>>

----------------------------------------------------------------------------
(* AgentOrchestrator.run and the PhaseType helpers of agents/state.py *)

(* get_next_phase: the next PhaseType, None after the last *)
GetNextPhase(current_phase) ==
    CASE current_phase = "divergence" -> "filtering"
      [] current_phase = "filtering"  -> "convergence"
      [] OTHER -> None

(* run: create_initial_state, then the RPA agent parses the requirement *)
OrchestratorStart ==
    /\ orch_pc = "idle"
    /\ orch_pc' = "initialization"
    /\ orch_phase' = "divergence"
    /\ UNCHANGED <<status, phase, phase_progress, ret>>
    /\ UNCHANGED <<lockVars, extVars>>

(* run: state["phase"] = DIVERGENCE, run_divergence_phase *)
OrchestratorDivergence ==
    /\ orch_pc = "initialization"
    /\ orch_pc' = "divergence"
    /\ orch_phase' = "divergence"
    /\ UNCHANGED <<status, phase, phase_progress, ret>>
    /\ UNCHANGED <<lockVars, extVars>>

(* run: state["phase"] = FILTERING, run_filtering_phase *)
OrchestratorFiltering ==
    /\ orch_pc = "divergence"
    /\ orch_pc' = "filtering"
    /\ orch_phase' = "filtering"
    /\ UNCHANGED <<status, phase, phase_progress, ret>>
    /\ UNCHANGED <<lockVars, extVars>>

(* run: state["phase"] = CONVERGENCE, run_convergence_phase *)
OrchestratorConvergence ==
    /\ orch_pc = "filtering"
    /\ orch_pc' = "convergence"
    /\ orch_phase' = "convergence"
    /\ UNCHANGED <<status, phase, phase_progress, ret>>
    /\ UNCHANGED <<lockVars, extVars>>

(* GameArbiterAgent.check_convergence: with a controller it awaits         *)
(* convergence_controller.check(branches), a method that no                *)
(* ConvergenceController defines, so the await raises AttributeError;      *)
(* without one it falls back to its own three tests.                       *)
AttributeError == "AttributeError"

GaCheckConvergence(has_controller, branch_count, utilities_close, round_number) ==
    IF has_controller THEN AttributeError
    ELSE IF branch_count <= 1 THEN "single_branch"
    ELSE IF utilities_close THEN "utility_convergence"
    ELSE IF round_number >= 10 THEN "max_rounds"
    ELSE None

(* run_convergence_phase: convergence_started, the BM agents, then ga.run *)
(* of the arbiter that _init_agents built with the orchestrator's          *)
(* controller. The exception of check_convergence leaves ga.run,           *)
(* run_convergence_phase and run: the debate rounds, the synthesis, the    *)
(* compilation stage and orchestration_completed are never reached.        *)
OrchestratorGA ==
    /\ orch_pc = "convergence"
    /\ \E utilities_close \in BOOLEAN :
          GaCheckConvergence(TRUE, Cardinality(branches), utilities_close, 1)
              = AttributeError
    /\ orch_pc' = "raised"
    /\ UNCHANGED <<status, phase, phase_progress, orch_phase, ret>>
    /\ UNCHANGED <<lockVars, extVars>>

OrchestratorStep ==
    \/ OrchestratorStart
    \/ OrchestratorDivergence
    \/ OrchestratorFiltering
    \/ OrchestratorConvergence
    \/ OrchestratorGA

PhaseNext ==
    \/ StartSession
    \/ PauseSession
    \/ ResumeSession
    \/ CompleteSession
    \/ \E t \in Phases, f \in BOOLEAN : TransitionPhase(t, f)
    \/ \E p \in -1..(ProgressSteps + 1) : UpdatePhaseProgress(p)
    \/ OrchestratorStart
    \/ OrchestratorDivergence
    \/ OrchestratorFiltering
    \/ OrchestratorConvergence
    \/ OrchestratorGA

PhaseSpec == Init /\ [][PhaseNext]_vars

----------------------------------------------------------------------------
(* Convergence monitoring: ConvergenceController (orchestrator.py) and     *)
(* OscillationDetector (algorithms/oscillation.py).                        *)
(* Entropy is counted in levels of one entropy_threshold (0.1); a position *)
(* text is the set of its lowercased words.                                *)

DetBranches  == {"b1", "b2"}
PositionA    == {"x"}
PositionB    == {"y"}
EmptyText    == {}

(* the positions dictionaries a round is recorded with *)
PositionMaps ==
    { [b \in {"b1"} |-> PositionA],
      [b \in DetBranches |-> PositionA],
      [b \in DetBranches |-> IF b = "b1" THEN PositionA ELSE PositionB] }

EntropyLevels == 0..MaxEntropy

(* h.get(branch_id, "") *)
GetPosition(h, branch_id) ==
    IF branch_id \in DOMAIN h THEN h[branch_id] ELSE EmptyText

(* the last n entries of a list: history[-n:] *)
LastN(history, n) ==
    IF Len(history) <= n THEN history
    ELSE SubSeq(history, Len(history) - n + 1, Len(history))

Abs(x) == IF x < 0 THEN -x ELSE x

(* _word_overlap_similarity: |A n B| / |A u B| as <<numerator, denominator>> *)
WordOverlapSimilarity(text_a, text_b) ==
    IF text_a = {} \/ text_b = {} THEN <<0, 1>>
    ELSE <<Cardinality(text_a \cap text_b), Cardinality(text_a \cup text_b)>>

(* compute_position_similarity with no embedding model configured *)
ComputePositionSimilarity(position_a, position_b) ==
    IF position_a = EmptyText \/ position_b = EmptyText THEN <<0, 1>>
    ELSE WordOverlapSimilarity(position_a, position_b)

(* sim > similarity_threshold and sim < similarity_threshold, in percent *)
SimAbove(sim) == sim[1] * 100 > SimilarityThreshold * sim[2]
SimBelow(sim) == sim[1] * 100 < SimilarityThreshold * sim[2]

(* the A -> B -> A test of one branch over the last three rounds *)
BranchOscillates(ph, branch_id) ==
    LET positions == [i \in 1..3 |-> GetPosition(LastN(ph, 3)[i], branch_id)]
        sim_0_2 == ComputePositionSimilarity(positions[1], positions[3])
        sim_0_1 == ComputePositionSimilarity(positions[1], positions[2])
        sim_1_2 == ComputePositionSimilarity(positions[2], positions[3])
    IN  SimAbove(sim_0_2) /\ SimBelow(sim_0_1) /\ SimBelow(sim_1_2)

CheckSimilarityOscillation(ph) ==
    IF Len(ph) < 3 THEN FALSE
    ELSE \E branch_id \in DOMAIN ph[Len(ph)] : BranchOscillates(ph, branch_id)

CheckEntropyStagnation_Strict(eh) ==
    IF Len(eh) < StagnationRounds + 1 THEN FALSE
    ELSE LET recent == LastN(eh, StagnationRounds)
         IN  \A i \in 2..Len(recent) :
                ~(recent[i-1] - recent[i] > EntropyThreshold)

CheckEntropyStagnation(eh) ==
    IF Len(eh) < StagnationRounds + 1 THEN FALSE
    ELSE LET recent == LastN(eh, StagnationRounds)
         IN  \A i \in 2..Len(recent) :
                ~(recent[i-1] - recent[i] >= EntropyThreshold)

(* OscillationDetector.check_oscillation: the trigger it returns *)
DetectorTrigger_EntropyFirst(ph, eh) ==
    IF Len(ph) < 3 THEN None
    ELSE IF CheckEntropyStagnation(eh) THEN "entropy_stagnation"
    ELSE IF CheckSimilarityOscillation(ph) THEN "similarity"
    ELSE None

DetectorTrigger(ph, eh) ==
    IF Len(ph) < 3 THEN None
    ELSE IF CheckSimilarityOscillation(ph) THEN "similarity"
    ELSE IF CheckEntropyStagnation(eh) THEN "entropy_stagnation"
    ELSE None

(* ConvergenceController.check_max_rounds (convergence_controller.py) *)
CheckMaxRounds(rc, mr) == rc >= mr

(* ConvergenceController.check_oscillation (orchestrator.py): its entropy  *)
(* test over entropy_history[-3:]                                          *)
ControllerEntropyStagnates(eh) ==
    /\ Len(eh) >= 3
    /\ LET recent == LastN(eh, 3)
       IN  \A i \in 1..(Len(recent) - 1) :
              Abs(recent[i] - recent[i+1]) < EntropyThreshold

(* ConvergenceController.check_oscillation (orchestrator.py): the trigger *)
ControllerTrigger(rc, eh, mr) ==
    IF rc < 3 THEN None
    ELSE IF rc >= mr THEN "max_rounds"
    ELSE IF ControllerEntropyStagnates(eh) THEN "entropy_stagnation"
    ELSE None

ctlRest == <<lockVars, phaseVars, detVars, streamVars, gaVars, graphVars,
            acaVars, pfVars, paVars, arbVars, pubVars>>
detRest == <<lockVars, phaseVars, ctlVars, streamVars, gaVars, graphVars,
            acaVars, pfVars, paVars, arbVars, pubVars>>

(* ConvergenceController.record_round *)
RecordRound(positions, entropy) ==
    /\ round_count < MaxRecorded
    /\ round_count' = round_count + 1
    /\ position_history' = Append(position_history, positions)
    /\ entropy_history' = Append(entropy_history, entropy)
    /\ ret' = Ret("record_round", None)
    /\ UNCHANGED <<max_rounds, ctlRest>>

(* ConvergenceController.check_oscillation *)
CheckOscillation ==
    /\ ret' = Ret("check_oscillation",
                  ControllerTrigger(round_count, entropy_history, max_rounds))
    /\ UNCHANGED <<ctlVars, ctlRest>>

Reset_KeepsEntropy ==
    /\ round_count' = 0
    /\ position_history' = <<>>
    /\ ret' = Ret("reset", None)
    /\ UNCHANGED <<entropy_history, max_rounds, ctlRest>>

(* ConvergenceController.reset *)
Reset ==
    /\ round_count' = 0
    /\ position_history' = <<>>
    /\ entropy_history' = <<>>
    /\ ret' = Ret("reset", None)
    /\ UNCHANGED <<max_rounds, ctlRest>>

(* ConvergenceController(max_rounds=...) *)
CtlInit ==
    /\ InitLock /\ InitPhase /\ InitDet /\ InitStream /\ InitGa
    /\ InitGraph /\ InitAca /\ InitPareto /\ InitPath /\ InitArb /\ InitPub
    /\ max_rounds \in MaxRoundsChoices
    /\ round_count = 0
    /\ position_history = <<>>
    /\ entropy_history = <<>>

CtlNext ==
    \/ \E positions \in PositionMaps, entropy \in EntropyLevels :
          RecordRound(positions, entropy)
    \/ CheckOscillation
    \/ Reset

CtlSpec == CtlInit /\ [][CtlNext]_vars

(* OscillationDetector.record_round *)
DetectorRecordRound(positions, entropy) ==
    /\ Len(det_position_history) < MaxRecorded
    /\ det_position_history' = Append(det_position_history, positions)
    /\ det_entropy_history' = Append(det_entropy_history, entropy)
    /\ ret' = Ret("record_round", None)
    /\ UNCHANGED detRest

(* OscillationDetector.check_oscillation *)
DetectorCheckOscillation ==
    /\ ret' = Ret("check_oscillation",
                  DetectorTrigger(det_position_history, det_entropy_history))
    /\ UNCHANGED <<detVars, detRest>>

(* OscillationDetector.reset *)
DetectorReset ==
    /\ det_position_history' = <<>>
    /\ det_entropy_history' = <<>>
    /\ ret' = Ret("reset", None)
    /\ UNCHANGED detRest

DetNext ==
    \/ \E positions \in PositionMaps, entropy \in EntropyLevels :
          DetectorRecordRound(positions, entropy)
    \/ DetectorCheckOscillation
    \/ DetectorReset

DetSpec == Init /\ [][DetNext]_vars

----------------------------------------------------------------------------
(* Event streaming: StreamManager of agents/streaming.py with no Redis     *)
(* client (the local queue), one session and one consumer.                 *)

EventIds == 1..MaxEvents     \* the values uuid4 can return, as numbers

streamRest == <<lockVars, phaseVars, ctlVars, detVars, gaVars, graphVars,
                acaVars, pfVars, paVars, arbVars, pubVars, ret>>

(* positions of an id in a list of event ids *)
IndexOf(list, id) ==
    IF \E i \in 1..Len(list) : list[i] = id
    THEN CHOOSE i \in 1..Len(list) : list[i] = id
    ELSE 0

(* publish_event's trim: history[-_max_history:] once it is longer *)
TrimHistory(history) ==
    IF Len(history) > MaxHistory
    THEN SubSeq(history, Len(history) - MaxHistory + 1, Len(history))
    ELSE history

(* broadcast_to_session / publish_event of a new StreamEvent, whose id is *)
(* str(uuid.uuid4()): any value not used before                            *)
PublishEvent(event_id) ==
    /\ event_id \notin {published[i] : i \in 1..Len(published)}
    /\ published' = Append(published, event_id)
    /\ event_history' = TrimHistory(Append(event_history, event_id))
    /\ queue' = IF stream_open THEN Append(queue, event_id) ELSE queue
    /\ sub' = IF sub.pc = "replay" /\ sub.alias
              THEN [sub EXCEPT !.list = Append(sub.list, event_id),
                               !.alias = Len(event_history) + 1 <= MaxHistory]
              ELSE sub
    /\ UNCHANGED <<stream_open, received, last_seen, streamRest>>

(* subscribe_session(session_id, last_event_id), up to its first yield:   *)
(* the queue is created when absent; with a last_event_id the history is   *)
(* searched for it and the events after it are replayed                    *)
SubscribeSession(last_event_id) ==
    /\ sub.pc = "none"
    /\ stream_open' = TRUE
    /\ LET k == IndexOf(event_history, last_event_id)
           at == IndexOf(published, last_event_id)
       IN  IF last_event_id # 0 /\ event_history # <<>> /\ k > 0
                /\ k < Len(event_history)
           THEN /\ sub' = [pc |-> "replay", list |-> event_history,
                           alias |-> TRUE, idx |-> k + 2, resumed_at |-> at]
                /\ received' = <<event_history[k + 1]>>
                /\ last_seen' = event_history[k + 1]
           ELSE /\ sub' = [pc |-> "listen", list |-> <<>>, alias |-> FALSE,
                           idx |-> 0,
                           resumed_at |-> IF last_event_id # 0 THEN at
                                          ELSE -1]
                /\ received' = <<>>
                /\ UNCHANGED last_seen
    /\ UNCHANGED <<event_history, queue, published, streamRest>>

(* subscribe_session: the next step of the replay loop *)
ReplayNext ==
    /\ sub.pc = "replay"
    /\ IF sub.idx <= Len(sub.list)
       THEN /\ received' = Append(received, sub.list[sub.idx])
            /\ last_seen' = sub.list[sub.idx]
            /\ sub' = [sub EXCEPT !.idx = sub.idx + 1]
       ELSE /\ sub' = [sub EXCEPT !.pc = "listen", !.list = <<>>,
                                  !.alias = FALSE, !.idx = 0]
            /\ UNCHANGED <<received, last_seen>>
    /\ UNCHANGED <<event_history, stream_open, queue, published, streamRest>>

(* subscribe_session: queue.get() returns an event and it is yielded *)
ListenNext ==
    /\ sub.pc = "listen"
    /\ queue # <<>>
    /\ received' = Append(received, Head(queue))
    /\ last_seen' = Head(queue)
    /\ queue' = Tail(queue)
    /\ UNCHANGED <<event_history, stream_open, published, sub, streamRest>>

(* the consumer's stream drops: its generator is abandoned *)
DropStream ==
    /\ sub.pc # "none"
    /\ sub' = NoSub
    /\ received' = <<>>
    /\ UNCHANGED <<event_history, stream_open, queue, published, last_seen,
                   streamRest>>

(* unsubscribe_session, called while no generator is running *)
UnsubscribeSession ==
    /\ sub.pc = "none"
    /\ stream_open
    /\ stream_open' = FALSE
    /\ queue' = <<>>
    /\ UNCHANGED <<event_history, published, sub, received, last_seen,
                   streamRest>>

StreamNext ==
    \/ \E event_id \in EventIds : PublishEvent(event_id)
    \/ SubscribeSession(last_seen)
    \/ ReplayNext
    \/ ListenNext
    \/ DropStream
    \/ UnsubscribeSession

StreamSpec == Init /\ [][StreamNext]_vars

----------------------------------------------------------------------------
(* GameArbiterAgent.compute_resource_allocation.                           *)
(* Python floats round every product and quotient to the nearest           *)
(* representable value; the model does the same on a grid of 1/Grid.       *)

GaIds       == {"1", "2", "3"}
Missing     == -1                    \* a branch dict without "utility_score"
Utilities   == {Missing, 0, (2 * Grid) \div 10, (3 * Grid) \div 10,
                (8 * Grid) \div 10, Grid}
ResourceBudget == Grid               \* resource_budget = 1.0

GaBranch    == [id : GaIds, utility_score : Utilities]
GaBranchLists == UNION {[1..n -> GaBranch] : n \in 0..MaxBranches}

(* a / b rounded to the nearest integer, for a >= 0 and b > 0 *)
RoundDiv(a, b) == (2 * a + b) \div (2 * b)

(* x * y and x / y of two grid values *)
FMul(x, y) == RoundDiv(x * y, Grid)
FDiv(x, y) == RoundDiv(x * Grid, y)

Min_Larger(x, y) == IF x <= y THEN y ELSE x

Min(x, y) == IF x <= y THEN x ELSE y

(* branch.get("utility_score", 0.5) *)
GetUtility(branch) ==
    IF branch.utility_score = Missing THEN Grid \div 2
    ELSE branch.utility_score

RECURSIVE SumUtility(_)
SumUtility(branch_list) ==
    IF branch_list = <<>> THEN 0
    ELSE GetUtility(Head(branch_list)) + SumUtility(Tail(branch_list))

(* sum(allocation.values()) *)
RECURSIVE SumValues(_)
SumValues(alloc) ==
    IF DOMAIN alloc = {} THEN 0
    ELSE LET k == CHOOSE k \in DOMAIN alloc : TRUE
         IN  alloc[k] + SumValues([j \in DOMAIN alloc \ {k} |-> alloc[j]])

(* lines 84-87: scale the allocation down when it exceeds the budget *)
ScaleToBudget(alloc, budget) ==
    LET total_allocated == SumValues(alloc)
    IN  IF total_allocated > budget
        THEN LET scale == FDiv(budget, total_allocated)
             IN  [k \in DOMAIN alloc |-> FMul(alloc[k], scale)]
        ELSE alloc

ComputeResourceAllocation(branch_list, pareto_front, budget) ==
    IF branch_list = <<>> THEN <<>>
    ELSE
      LET total_utility == SumUtility(branch_list)
          Share(i) ==
              LET utility == GetUtility(branch_list[i])
                  base_allocation ==
                      IF total_utility > 0
                      THEN FMul(FDiv(utility, total_utility), budget)
                      ELSE RoundDiv(budget, Len(branch_list))
                  boosted ==
                      IF branch_list[i].id \in pareto_front
                      THEN FMul(base_allocation, (12 * Grid) \div 10)
                      ELSE base_allocation
              IN  Min(boosted, FMul(budget, Grid \div 2))
          ids == {branch_list[i].id : i \in 1..Len(branch_list)}
          \* allocation[branch_id] = ...: a later branch of the same id wins
          LastOf(id) == CHOOSE i \in 1..Len(branch_list) :
                            /\ branch_list[i].id = id
                            /\ \A j \in (i+1)..Len(branch_list) :
                                  branch_list[j].id # id
      IN  ScaleToBudget([id \in ids |-> Share(LastOf(id))], budget)

gaRest == <<lockVars, phaseVars, ctlVars, detVars, streamVars, graphVars,
            acaVars, pfVars, paVars, arbVars, pubVars, ret>>

(* a call of compute_resource_allocation(branches, pareto_front) *)
CallComputeResourceAllocation ==
    /\ allocation = <<>>
    /\ allocation' = <<ComputeResourceAllocation(ga_branches, ga_front,
                                                 ResourceBudget)>>
    /\ UNCHANGED <<ga_branches, ga_front, gaRest>>

(* the arguments of the call: any branches, any Pareto front *)
GaInit ==
    /\ InitLock /\ InitPhase /\ InitCtl /\ InitDet /\ InitStream
    /\ InitGraph /\ InitAca /\ InitPareto /\ InitPath /\ InitArb /\ InitPub
    /\ ga_branches \in GaBranchLists
    /\ ga_front \in SUBSET GaIds
    /\ allocation = <<>>

GaNext == CallComputeResourceAllocation

GaSpec == GaInit /\ [][GaNext]_vars

----------------------------------------------------------------------------
(* GraphService: node and edge operations on the stored session.           *)
(* Every operation awaits get_session, works on the session it was handed  *)
(* and stores that whole session with _save_session. With Redis the        *)
(* session handed out is a copy (json.loads), so two operations can each   *)
(* hold one; an operation whose two steps follow each other is the         *)
(* operation run on its own.                                               *)

NodeIds   == 1..MaxGraphNodes
EdgeIds   == 1..MaxGraphEdges
EdgeTypes == {"support"}
(* the nodes a caller asks for: another goal, or a claim under the goal *)
NodeInputs == {[type |-> "goal", layer |-> 0, parent_id |-> NoParent],
               [type |-> "claim", layer |-> 1, parent_id |-> GoalId]}
UpdateKeys == {"content", "type"}
AllowedFields == {"content", "confidence", "utility", "sensitivity",
                  "metadata"}

graphRest == <<lockVars, phaseVars, ctlVars, detVars, streamVars, gaVars,
              acaVars, pfVars, paVars, arbVars, pubVars>>

(* f without the keys in ks *)
Without(f, ks) == [k \in DOMAIN f \ ks |-> f[k]]

(* session_service.get_session *)
GetSession(c) ==
    /\ loaded[c] = <<>>
    /\ loaded' = [loaded EXCEPT ![c] = <<graph>>]
    /\ ret' = Ret("get_session", c)
    /\ UNCHANGED <<graph, node_ids_used, edge_ids_used, graphRest>>

(* _save_session(session), after which the operation returns val *)
SaveSession(c, session, op, val) ==
    /\ graph' = session
    /\ loaded' = [loaded EXCEPT ![c] = <<>>]
    /\ ret' = Ret(op, val)

(* an operation that raises or returns before it saves *)
LeaveSession(c, op, val) ==
    /\ loaded' = [loaded EXCEPT ![c] = <<>>]
    /\ ret' = Ret(op, val)
    /\ UNCHANGED graph

GraphCreateNode(c, node) ==
    /\ loaded[c] # <<>>
    /\ node_ids_used < MaxGraphNodes
    /\ LET session == loaded[c][1]
           node_id == node_ids_used + 1
       IN  /\ SaveSession(c, [session EXCEPT
                                 !.nodes = Without(@, {node_id})
                                             @@ (node_id :> node)],
                          "create_node", "created")
           /\ node_ids_used' = node_id
    /\ UNCHANGED <<edge_ids_used, graphRest>>

(* update_node with updates = {key: value}: only the allowed fields are    *)
(* written, none of which is the type, the layer or the parent, so the     *)
(* nodes kept here stay as they are and the session is stored again.       *)
GraphUpdateNode(c, node_id, key) ==
    /\ loaded[c] # <<>>
    /\ LET session == loaded[c][1]
       IN  IF node_id \notin DOMAIN session.nodes
           THEN LeaveSession(c, "update_node", ValueError)
           ELSE SaveSession(c, session, "update_node",
                            IF key \in AllowedFields THEN "updated"
                            ELSE "ignored")
    /\ UNCHANGED <<node_ids_used, edge_ids_used, graphRest>>

EdgesToDelete_None(session, node_id) == {}

(* edges_to_delete of delete_node *)
EdgesToDelete(session, node_id) ==
    {edge_id \in DOMAIN session.edges :
        \/ session.edges[edge_id].source_id = node_id
        \/ session.edges[edge_id].target_id = node_id}

GraphDeleteNode(c, node_id) ==
    /\ loaded[c] # <<>>
    /\ LET session == loaded[c][1]
       IN  IF node_id \notin DOMAIN session.nodes
           THEN LeaveSession(c, "delete_node", "False")
           ELSE SaveSession(c,
                    [nodes |-> Without(session.nodes, {node_id}),
                     edges |-> Without(session.edges,
                                       EdgesToDelete(session, node_id))],
                    "delete_node", "True")
    /\ UNCHANGED <<node_ids_used, edge_ids_used, graphRest>>

GraphCreateEdge(c, source_id, target_id, edge_type) ==
    /\ loaded[c] # <<>>
    /\ LET session == loaded[c][1]
           edge_id == edge_ids_used + 1
           edge    == [source_id |-> source_id, target_id |-> target_id,
                       type |-> edge_type]
       IN  IF \/ source_id \notin DOMAIN session.nodes
              \/ target_id \notin DOMAIN session.nodes
           THEN /\ LeaveSession(c, "create_edge", ValueError)
                /\ UNCHANGED edge_ids_used
           ELSE /\ edge_ids_used < MaxGraphEdges
                /\ SaveSession(c, [session EXCEPT
                                      !.edges = Without(@, {edge_id})
                                                  @@ (edge_id :> edge)],
                               "create_edge", "created")
                /\ edge_ids_used' = edge_id
    /\ UNCHANGED <<node_ids_used, graphRest>>

(* update_edge: weight, validated and metadata only *)
GraphUpdateEdge(c, edge_id) ==
    /\ loaded[c] # <<>>
    /\ LET session == loaded[c][1]
       IN  IF edge_id \notin DOMAIN session.edges
           THEN LeaveSession(c, "update_edge", ValueError)
           ELSE SaveSession(c, session, "update_edge", "updated")
    /\ UNCHANGED <<node_ids_used, edge_ids_used, graphRest>>

GraphDeleteEdge(c, edge_id) ==
    /\ loaded[c] # <<>>
    /\ LET session == loaded[c][1]
       IN  IF edge_id \notin DOMAIN session.edges
           THEN LeaveSession(c, "delete_edge", "False")
           ELSE SaveSession(c, [session EXCEPT
                                   !.edges = Without(@, {edge_id})],
                            "delete_edge", "True")
    /\ UNCHANGED <<node_ids_used, edge_ids_used, graphRest>>

GraphNext ==
    \/ \E c \in Clients : GetSession(c)
    \/ \E c \in Clients, node \in NodeInputs : GraphCreateNode(c, node)
    \/ \E c \in Clients, n \in NodeIds, k \in UpdateKeys :
          GraphUpdateNode(c, n, k)
    \/ \E c \in Clients, n \in NodeIds : GraphDeleteNode(c, n)
    \/ \E c \in Clients, a \in NodeIds, b \in NodeIds, t \in EdgeTypes :
          GraphCreateEdge(c, a, b, t)
    \/ \E c \in Clients, e \in EdgeIds : GraphUpdateEdge(c, e)
    \/ \E c \in Clients, e \in EdgeIds : GraphDeleteEdge(c, e)

GraphSpec == Init /\ [][GraphNext]_vars

----------------------------------------------------------------------------
(* AuditComplianceAgent: detect_circular_dependencies, the report and the  *)
(* events of run.                                                          *)

AcaNodes == {"a", "b", "c"}
AcaEdge  == [source_id : AcaNodes, target_id : AcaNodes]
AcaEdgeLists == UNION {[1..n -> AcaEdge] : n \in 0..MaxAcaEdges}
RuntimeError == "RuntimeError"

Range(list) == {list[i] : i \in DOMAIN list}

(* graph[source].append(target): the keys of graph in insertion order *)
RECURSIVE SourceKeys(_)
SourceKeys(edges) ==
    IF edges = <<>> THEN <<>>
    ELSE LET keys == SourceKeys(SubSeq(edges, 1, Len(edges) - 1))
             source == edges[Len(edges)].source_id
         IN  IF source \in Range(keys) THEN keys ELSE Append(keys, source)

(* graph[node]: the targets of node, in the order of the edges *)
RECURSIVE Neighbors(_, _)
Neighbors(edges, node) ==
    IF edges = <<>> THEN <<>>
    ELSE IF Head(edges).source_id = node
         THEN <<Head(edges).target_id>> \o Neighbors(Tail(edges), node)
         ELSE Neighbors(Tail(edges), node)

(* path[path.index(neighbor):] + [neighbor] *)
CycleFrom(path, neighbor) ==
    LET cycle_start == CHOOSE i \in 1..Len(path) :
                           /\ path[i] = neighbor
                           /\ \A j \in 1..(i - 1) : path[j] # neighbor
    IN  Append(SubSeq(path, cycle_start, Len(path)), neighbor)

(* dfs(node, path); st holds visited, cycles and the keys of graph. Reading *)
(* graph[node] of a node that is no source adds the key to the defaultdict. *)
(* rec_stack is the set of the nodes on path.                              *)
RECURSIVE Dfs(_, _, _, _)
RECURSIVE DfsNeighbors(_, _, _, _)
Dfs(edges, node, path, st) ==
    DfsNeighbors(edges, Append(path, node), Neighbors(edges, node),
                 [st EXCEPT !.visited = @ \cup {node},
                            !.keys = IF node \in Range(@) THEN @
                                     ELSE Append(@, node)])

DfsNeighbors(edges, path, neighbors, st) ==
    IF neighbors = <<>> THEN st
    ELSE LET neighbor == Head(neighbors)
             cycle == CycleFrom(path, neighbor)
             after ==
                 IF neighbor \notin st.visited
                 THEN Dfs(edges, neighbor, path, st)
                 ELSE IF neighbor \in Range(path)
                      THEN [st EXCEPT !.cycles =
                                IF cycle \in Range(@) THEN @
                                ELSE Append(@, cycle)]
                      ELSE st
         IN  DfsNeighbors(edges, path, Tail(neighbors), after)

(* for node in graph: the dict iterator raises RuntimeError at its next    *)
(* step when the dict has changed size since the loop began.               *)
RECURSIVE ForNodeInGraph(_, _, _, _)
ForNodeInGraph(edges, i, size, st) ==
    IF Len(st.keys) # size
    THEN [raised |-> TRUE, cycles |-> st.cycles]
    ELSE IF i > size
         THEN [raised |-> FALSE, cycles |-> st.cycles]
         ELSE ForNodeInGraph(edges, i + 1, size,
                  IF st.keys[i] \notin st.visited
                  THEN Dfs(edges, st.keys[i], <<>>, st)
                  ELSE st)

DetectCircularDependencies(edges) ==
    LET keys == SourceKeys(edges)
    IN  ForNodeInGraph(edges, 1, Len(keys),
                       [visited |-> {}, cycles |-> <<>>, keys |-> keys])

(* generate_audit_report: is_compliant; run adds the cycles afterwards *)
IsCompliant(is_consistent, hard_violation) ==
    is_consistent /\ ~hard_violation

acaRest == <<lockVars, phaseVars, ctlVars, detVars, streamVars, gaVars,
             graphVars, pfVars, paVars, arbVars, pubVars, ret>>

(* run up to its end: cycles_detected, audit_report, agent_completed, or   *)
(* the exception that leaves it                                            *)
AcaRun ==
    /\ aca_events = <<>>
    /\ LET found == DetectCircularDependencies(aca_edges)
           is_compliant == IsCompliant(aca_checks.is_consistent,
                                       aca_checks.hard_violation)
       IN  aca_events' =
               IF found.raised
               THEN <<[type |-> RuntimeError, cycles |-> found.cycles,
                       is_compliant |-> FALSE]>>
               ELSE <<[type |-> "cycles_detected", cycles |-> found.cycles,
                       is_compliant |-> FALSE],
                      [type |-> "audit_report", cycles |-> found.cycles,
                       is_compliant |-> is_compliant],
                      [type |-> "agent_completed", cycles |-> <<>>,
                       is_compliant |-> is_compliant]>>
    /\ UNCHANGED <<aca_edges, aca_checks, acaRest>>

(* the graph_state handed to run, and what its other checks will find *)
AcaInit ==
    /\ InitLock /\ InitPhase /\ InitCtl /\ InitDet /\ InitStream /\ InitGa
    /\ InitGraph /\ InitPareto /\ InitPath /\ InitArb /\ InitPub
    /\ aca_edges \in AcaEdgeLists
    /\ aca_checks \in [is_consistent : BOOLEAN, hard_violation : BOOLEAN]
    /\ aca_events = <<>>

AcaNext == AcaRun

AcaSpec == AcaInit /\ [][AcaNext]_vars

----------------------------------------------------------------------------
(* ParetoOptimizer.dominates / compute_pareto_front, and the arbiter's own *)
(* compute_pareto_front.                                                   *)

Objectives == <<"utility_score", "confidence">>
DirectionChoices == {<<"max", "max">>, <<"max", "min">>}
Candidate == [id : {"1", "2"}, utility_score : {Missing, 1},
              confidence : {0, 1}, risk : {Missing}]
CandidateLists == UNION {[1..n -> Candidate] : n \in 0..MaxCandidates}

(* solution.get(obj, 0) *)
GetObjective(solution, obj) ==
    IF solution[obj] = Missing THEN 0 ELSE solution[obj]

(* the loop of dominates from objective i on *)
RECURSIVE DominatesFrom(_, _, _, _, _)
DominatesFrom(solution_a, solution_b, directions, i, strictly_better) ==
    IF i > Len(Objectives) THEN strictly_better
    ELSE LET a_val == GetObjective(solution_a, Objectives[i])
             b_val == GetObjective(solution_b, Objectives[i])
         IN  IF directions[i] = "max"
             THEN IF a_val < b_val THEN FALSE
                  ELSE DominatesFrom(solution_a, solution_b, directions,
                                     i + 1, strictly_better \/ a_val > b_val)
             ELSE IF a_val > b_val THEN FALSE
                  ELSE DominatesFrom(solution_a, solution_b, directions,
                                     i + 1, strictly_better \/ a_val < b_val)

Dominates_NotStrict(solution_a, solution_b, directions) ==
    DominatesFrom(solution_a, solution_b, directions, 1, TRUE)

Dominates(solution_a, solution_b, directions) ==
    DominatesFrom(solution_a, solution_b, directions, 1, FALSE)

IsDominated_ByEarlier(solutions, i, directions) ==
    \E j \in 1..(i - 1) : Dominates(solutions[j], solutions[i], directions)

(* the inner loop: some other entry of the list dominates the candidate *)
IsDominated(solutions, i, directions) ==
    \E j \in 1..Len(solutions) :
        j # i /\ Dominates(solutions[j], solutions[i], directions)

RECURSIVE ParetoFrontFrom(_, _, _)
ParetoFrontFrom(solutions, i, directions) ==
    IF i > Len(solutions) THEN <<>>
    ELSE (IF IsDominated(solutions, i, directions) THEN <<>>
          ELSE <<solutions[i]>>)
         \o ParetoFrontFrom(solutions, i + 1, directions)

ComputeParetoFront(solutions, directions) ==
    IF solutions = <<>> THEN <<>>
    ELSE ParetoFrontFrom(solutions, 1, directions)

(* GameArbiterAgent.compute_pareto_front: the scores of a branch, doubled  *)
(* (risk defaults to 0.5)                                                  *)
GaScores(branch) ==
    <<2 * GetObjective(branch, "utility_score"),
      2 * GetObjective(branch, "confidence"),
      2 - (IF branch.risk = Missing THEN 1 ELSE 2 * branch.risk)>>

RECURSIVE GaDominatesFrom(_, _, _, _)
GaDominatesFrom(a_scores, b_scores, i, better_in_one) ==
    IF i > Len(a_scores) THEN better_in_one
    ELSE IF a_scores[i] < b_scores[i] THEN FALSE
         ELSE GaDominatesFrom(a_scores, b_scores, i + 1,
                              better_in_one \/ a_scores[i] > b_scores[i])

GaDominates(a, b) == GaDominatesFrom(GaScores(a), GaScores(b), 1, FALSE)

GaIsDominated(branch_list, i) ==
    \E j \in 1..Len(branch_list) :
        /\ branch_list[j].id # branch_list[i].id
        /\ GaDominates(branch_list[j], branch_list[i])

RECURSIVE GaParetoFrom(_, _)
GaParetoFrom(branch_list, i) ==
    IF i > Len(branch_list) THEN <<>>
    ELSE (IF GaIsDominated(branch_list, i) THEN <<>>
          ELSE <<branch_list[i]>>)
         \o GaParetoFrom(branch_list, i + 1)

GaComputeParetoFront(branch_list) ==
    IF branch_list = <<>> THEN <<>>
    ELSE GaParetoFrom(branch_list, 1)

pfRest == <<lockVars, phaseVars, ctlVars, detVars, streamVars, gaVars,
            graphVars, acaVars, paVars, arbVars, pubVars, ret>>

CallComputeParetoFront ==
    /\ pf_front = <<>>
    /\ pf_front' = <<ComputeParetoFront(pf_solutions, pf_directions)>>
    /\ UNCHANGED <<pf_solutions, pf_directions, ga_pareto, pfRest>>

CallGaComputeParetoFront ==
    /\ ga_pareto = <<>>
    /\ ga_pareto' = <<GaComputeParetoFront(pf_solutions)>>
    /\ UNCHANGED <<pf_solutions, pf_directions, pf_front, pfRest>>

(* any candidate list, an optimizer of either direction setting *)
ParetoInit ==
    /\ InitLock /\ InitPhase /\ InitCtl /\ InitDet /\ InitStream /\ InitGa
    /\ InitGraph /\ InitAca /\ InitPath /\ InitArb /\ InitPub
    /\ pf_solutions \in CandidateLists
    /\ pf_directions \in DirectionChoices
    /\ pf_front = <<>>
    /\ ga_pareto = <<>>

ParetoNext ==
    \/ CallComputeParetoFront
    \/ CallGaComputeParetoFront

ParetoSpec == ParetoInit /\ [][ParetoNext]_vars

----------------------------------------------------------------------------
(* Path analysis: algorithms/path_analysis.py (PathAnalyzer) and           *)
(* algorithms/sensitivity.py (SensitivityAnalyzer).  A graph is its set of *)
(* node ids and its set of edges; the edges are distinct, so that the      *)
(* lists of paths the code builds hold no path twice and are sets here.    *)

PathNodes     == 0..3
PathEdgeTypes == {"decompose", "support"}
PathEdge      == {e \in [source_id : PathNodes, target_id : PathNodes,
                         type : PathEdgeTypes] :
                     e.source_id # e.target_id}

Decompose(s, t) == [source_id |-> s, target_id |-> t, type |-> "decompose"]

(* the subsets of S of at most k elements *)
RECURSIVE SubsetsUpTo(_, _)
SubsetsUpTo(S, k) ==
    IF k = 0 THEN {{}}
    ELSE LET smaller == SubsetsUpTo(S, k - 1)
         IN  smaller \cup {p \cup {e} : p \in smaller, e \in S}

SmallGraphs ==
    {[nodes |-> PathNodes, edges |-> es] :
        es \in SubsetsUpTo(PathEdge, MaxPathEdges)}

(* the chain Goal -> 1 -> ... -> n *)
Chain(n) ==
    [nodes |-> 0..n, edges |-> {Decompose(i, i + 1) : i \in 0..(n - 1)}]

(* the chain of n edges and a second way Goal -> n+1 -> n to its leaf *)
ChainWithShortcut(n) ==
    [nodes |-> 0..(n + 1),
     edges |-> Chain(n).edges
               \cup {Decompose(GoalNode, n + 1), Decompose(n + 1, n)}]

(* the chain of n edges and a diamond Goal -> {n+1, n+2} -> n+3 beside it *)
ChainAndDiamond(n) ==
    [nodes |-> 0..(n + 3),
     edges |-> Chain(n).edges
               \cup {Decompose(GoalNode, n + 1), Decompose(GoalNode, n + 2),
                     Decompose(n + 1, n + 3), Decompose(n + 2, n + 3)}]

DeepGraphs ==
    {Chain(DefaultMaxDepth), Chain(DefaultMaxDepth + 1),
     ChainWithShortcut(DefaultMaxDepth + 1),
     ChainAndDiamond(DefaultMaxDepth + 1)}

(* _build_adjacency: self.children[node_id], decompose edges only *)
Children(g, node_id) ==
    {e.target_id : e \in {x \in g.edges : /\ x.type = "decompose"
                                          /\ x.source_id = node_id}}

FindLeafNodes(g) == {node_id \in g.nodes : Children(g, node_id) = {}}

(* find_all_paths without its test of visited *)
RECURSIVE FindAllPaths_NoVisited(_, _, _, _, _)
FindAllPaths_NoVisited(g, from_node_id, to_node_id, visited, max_depth) ==
    IF from_node_id = to_node_id THEN {<<from_node_id>>}
    ELSE IF max_depth <= 0 THEN {}
    ELSE UNION {{<<from_node_id>> \o path :
                    path \in FindAllPaths_NoVisited(g, child, to_node_id,
                                                    visited, max_depth - 1)} :
                child \in Children(g, from_node_id)}

(* PathAnalyzer.find_all_paths *)
RECURSIVE FindAllPaths(_, _, _, _, _)
FindAllPaths(g, from_node_id, to_node_id, visited, max_depth) ==
    IF from_node_id = to_node_id THEN {<<from_node_id>>}
    ELSE IF from_node_id \in visited \/ max_depth <= 0 THEN {}
    ELSE UNION {{<<from_node_id>> \o path :
                    path \in FindAllPaths(g, child, to_node_id,
                                          visited \cup {from_node_id},
                                          max_depth - 1)} :
                child \in Children(g, from_node_id)}

(* SensitivityAnalyzer._find_all_paths *)
RECURSIVE SaFindAllPaths(_, _, _, _)
SaFindAllPaths(g, from_node, to_node, visited) ==
    IF from_node = to_node THEN {<<from_node>>}
    ELSE IF from_node \in visited THEN {}
    ELSE UNION {{<<from_node>> \o path :
                    path \in SaFindAllPaths(g, child, to_node,
                                            visited \cup {from_node})} :
                child \in Children(g, from_node)}

(* the deepest nesting of the calls find_all_paths makes of itself *)
RECURSIVE FindAllPathsNesting(_, _, _, _, _)
FindAllPathsNesting(g, from_node_id, to_node_id, visited, max_depth) ==
    IF from_node_id = to_node_id THEN 0
    ELSE IF from_node_id \in visited \/ max_depth <= 0 THEN 0
    ELSE LET below == {FindAllPathsNesting(g, child, to_node_id,
                                           visited \cup {from_node_id},
                                           max_depth - 1) :
                          child \in Children(g, from_node_id)}
         IN  IF below = {} THEN 0
             ELSE 1 + CHOOSE n \in below : \A m \in below : m <= n

(* the deepest nesting of the calls _find_all_paths makes of itself *)
RECURSIVE SaFindAllPathsNesting(_, _, _, _)
SaFindAllPathsNesting(g, from_node, to_node, visited) ==
    IF from_node = to_node THEN 0
    ELSE IF from_node \in visited THEN 0
    ELSE LET below == {SaFindAllPathsNesting(g, child, to_node,
                                             visited \cup {from_node}) :
                          child \in Children(g, from_node)}
         IN  IF below = {} THEN 0
             ELSE 1 + CHOOSE n \in below : \A m \in below : m <= n

(* path[1:-1] as a set *)
Inner(path) == {path[i] : i \in 2..(Len(path) - 1)}

(* the nodes in path[1:-1] of every path, the union instead *)
Common_Union(paths) == UNION {Inner(p) : p \in paths}

(* common: every intermediate node of a single path, and the intersection *)
(* of the intermediate nodes of several                                    *)
Common(paths) ==
    IF Cardinality(paths) = 1
    THEN Inner(CHOOSE p \in paths : TRUE)
    ELSE {n \in UNION {Inner(p) : p \in paths} :
             \A p \in paths : n \in Inner(p)}

(* _minimize_cut_sets, and the loop that ends                              *)
(* SensitivityAnalyzer.compute_minimal_cut_sets: no duplicate, no superset *)
MinimizeCutSets(cut_sets) ==
    {c \in cut_sets :
        ~ \E other \in cut_sets : other # c /\ other \subseteq c}

(* PathAnalyzer.compute_minimal_cut_sets *)
ComputeMinimalCutSets(g) ==
    MinimizeCutSets(
        UNION {LET paths == FindAllPaths(g, GoalNode, leaf, {},
                                         DefaultMaxDepth)
               IN  IF paths = {} THEN {}
                   ELSE {{node} : node \in Common(paths)} :
               leaf \in FindLeafNodes(g)})

(* SensitivityAnalyzer.compute_minimal_cut_sets *)
SaComputeMinimalCutSets(g) ==
    MinimizeCutSets(
        UNION {LET paths == SaFindAllPaths(g, GoalNode, leaf, {})
               IN  IF paths = {} THEN {}
                   ELSE {{node} : node \in
                            {n \in UNION {Inner(p) : p \in paths} :
                                \A p \in paths : n \in Inner(p)}} :
               leaf \in FindLeafNodes(g)})

(* PathAnalyzer.classify_path *)
ClassifyPath(path, all_paths) ==
    IF Len(path) < 2
    THEN [classification |-> "critical", critical_nodes |-> Range(path)]
    ELSE LET critical_nodes ==
                 {node_id \in Inner(path) :
                     Cardinality({p \in all_paths :
                                     node_id \in Range(p)}) = 1}
         IN  [classification |-> IF critical_nodes # {} THEN "critical"
                                 ELSE "redundant",
              critical_nodes |-> critical_nodes]

(* the sum of f[x] over the x in S *)
RECURSIVE SumOver(_, _)
SumOver(f, S) ==
    IF S = {} THEN 0
    ELSE LET x == CHOOSE y \in S : TRUE
         IN  f[x] + SumOver(f, S \ {x})

(* a ratio is inf, or the fraction num / den *)
Inf == [inf |-> TRUE, num |-> 0, den |-> 1]

Ratio_NoConvention(redundant_count, critical_count) ==
    IF critical_count = 0 THEN Inf
    ELSE [inf |-> FALSE, num |-> redundant_count, den |-> critical_count]

(* the end of both compute_redundancy_ratio: inf, 1.0 or the quotient *)
Ratio(redundant_count, critical_count) ==
    IF critical_count = 0
    THEN IF redundant_count > 0 THEN Inf
         ELSE [inf |-> FALSE, num |-> 1, den |-> 1]
    ELSE [inf |-> FALSE, num |-> redundant_count, den |-> critical_count]

(* PathAnalyzer.compute_redundancy_ratio *)
ComputeRedundancyRatio(g) ==
    LET paths == [leaf \in FindLeafNodes(g) |->
                     FindAllPaths(g, GoalNode, leaf, {}, DefaultMaxDepth)]
        critical_count ==
            Cardinality({leaf \in FindLeafNodes(g) :
                            Cardinality(paths[leaf]) = 1})
        redundant_count ==
            SumOver([leaf \in FindLeafNodes(g) |->
                        IF Cardinality(paths[leaf]) = 1 THEN 0
                        ELSE Cardinality(paths[leaf])],
                    FindLeafNodes(g))
    IN  Ratio(redundant_count, critical_count)

(* PathAnalyzer.analyze *)
Analyze(g) ==
    LET all_paths ==
            UNION {FindAllPaths(g, GoalNode, leaf, {}, DefaultMaxDepth) :
                      leaf \in FindLeafNodes(g)}
    IN  [critical_paths |->
             {p \in all_paths :
                 ClassifyPath(p, all_paths).classification = "critical"},
         redundant_paths |->
             {p \in all_paths :
                 ClassifyPath(p, all_paths).classification # "critical"},
         minimal_cut_sets |-> ComputeMinimalCutSets(g),
         redundancy_ratio |-> ComputeRedundancyRatio(g)]

(* SensitivityAnalyzer.identify_critical_paths *)
IdentifyCriticalPaths(g) ==
    UNION {LET paths == SaFindAllPaths(g, GoalNode, leaf, {})
           IN  IF Cardinality(paths) = 1 THEN paths ELSE {} :
           leaf \in FindLeafNodes(g)}

(* SensitivityAnalyzer.identify_redundant_paths *)
IdentifyRedundantPaths(g) ==
    UNION {LET paths == SaFindAllPaths(g, GoalNode, leaf, {})
           IN  IF Cardinality(paths) > 1 THEN paths ELSE {} :
           leaf \in FindLeafNodes(g)}

(* SensitivityAnalyzer.compute_redundancy_ratio *)
SaComputeRedundancyRatio(g) ==
    Ratio(Cardinality(IdentifyRedundantPaths(g)),
          Cardinality(IdentifyCriticalPaths(g)))

paRest == <<lockVars, phaseVars, ctlVars, detVars, streamVars, gaVars,
            graphVars, acaVars, pfVars,
            arbVars, pubVars, ret>>

(* PathAnalyzer(graph, goal_node_id).analyze() *)
CallAnalyze ==
    /\ pa_analysis = <<>>
    /\ pa_analysis' = <<Analyze(pa_graph)>>
    /\ UNCHANGED <<pa_graph, sa_analysis, pa_found, paRest>>

(* SensitivityAnalyzer(graph, goal_node_id): its path reports *)
CallSensitivity ==
    /\ sa_analysis = <<>>
    /\ sa_analysis' =
           <<[critical_paths |-> IdentifyCriticalPaths(pa_graph),
              redundant_paths |-> IdentifyRedundantPaths(pa_graph),
              minimal_cut_sets |-> SaComputeMinimalCutSets(pa_graph),
              redundancy_ratio |-> SaComputeRedundancyRatio(pa_graph)]>>
    /\ UNCHANGED <<pa_graph, pa_analysis, pa_found, paRest>>

PathInit ==
    /\ InitLock /\ InitPhase /\ InitCtl /\ InitDet /\ InitStream /\ InitGa
    /\ InitGraph /\ InitAca /\ InitPareto /\ InitArb /\ InitPub
    /\ pa_graph \in SmallGraphs \cup DeepGraphs
    /\ pa_analysis = <<>>
    /\ sa_analysis = <<>>
    /\ pa_found = <<>>

PathNext ==
    \/ CallAnalyze
    \/ CallSensitivity

PathSpec == PathInit /\ [][PathNext]_vars

(* find_all_paths(from_node_id, to_node_id, max_depth=max_depth) and       *)
(* _find_all_paths(from_node_id, to_node_id) on the graph at hand, visited *)
(* left to its default                                                     *)
CallFindAllPaths(from_node_id, to_node_id, max_depth) ==
    /\ pa_found = <<>>
    /\ pa_found' =
           <<[from_node_id |-> from_node_id,
              to_node_id |-> to_node_id,
              max_depth |-> max_depth,
              paths |-> FindAllPaths(pa_graph, from_node_id, to_node_id,
                                     {}, max_depth),
              nesting |-> FindAllPathsNesting(pa_graph, from_node_id,
                                              to_node_id, {}, max_depth),
              sa_paths |-> SaFindAllPaths(pa_graph, from_node_id,
                                          to_node_id, {}),
              sa_nesting |-> SaFindAllPathsNesting(pa_graph, from_node_id,
                                                   to_node_id, {})]>>
    /\ UNCHANGED <<pa_graph, pa_analysis, sa_analysis, paRest>>

FindGraphs ==
    {[nodes |-> PathNodes, edges |-> es] :
        es \in SubsetsUpTo(PathEdge, MaxFindEdges)}

DepthArgs == {0, 2, DefaultMaxDepth}

FindInit ==
    /\ InitLock /\ InitPhase /\ InitCtl /\ InitDet /\ InitStream /\ InitGa
    /\ InitGraph /\ InitAca /\ InitPareto /\ InitArb /\ InitPub
    /\ pa_graph \in FindGraphs \cup {Chain(DefaultMaxDepth + 1)}
    /\ pa_analysis = <<>>
    /\ sa_analysis = <<>>
    /\ pa_found = <<>>

FindNext ==
    \E from_node_id, to_node_id \in pa_graph.nodes, max_depth \in DepthArgs :
        CallFindAllPaths(from_node_id, to_node_id, max_depth)

FindSpec == FindInit /\ [][FindNext]_vars

----------------------------------------------------------------------------
(* GameArbiterAgent.run: one arbitration round, from one yield to the next *)

arbRest == <<lockVars, phaseVars, ctlVars, detVars, streamVars, gaVars,
             graphVars, acaVars, pfVars, paVars,
            pubVars, ret>>

Yield(type) == arb_events' = Append(arb_events, type)

(* run is called with branches: round_number += 1, agent_started *)
ArbStart(branch_count, utilities_close) ==
    /\ arb_pc.at = "idle"
    /\ arb_round < MaxRoundsRun
    /\ arb_round' = arb_round + 1
    /\ arb_pc' = [at |-> "started", branch_count |-> branch_count,
                  utilities_close |-> utilities_close]
    /\ arb_events' = <<"agent_started">>
    /\ UNCHANGED <<arb_controller, arbRest>>

(* compute_pareto_front, pareto_front_computed *)
ArbParetoFront ==
    /\ arb_pc.at = "started"
    /\ arb_pc' = [arb_pc EXCEPT !.at = "front"]
    /\ Yield("pareto_front_computed")
    /\ UNCHANGED <<arb_controller, arb_round, arbRest>>

(* compute_resource_allocation, resources_allocated *)
ArbAllocate ==
    /\ arb_pc.at = "front"
    /\ arb_pc' = [arb_pc EXCEPT !.at = "allocated"]
    /\ Yield("resources_allocated")
    /\ UNCHANGED <<arb_controller, arb_round, arbRest>>

(* check_convergence and the first event of trigger_synthesis or of        *)
(* coordinate_debate_round; the exception of check_convergence leaves run  *)
ArbCheckConvergence ==
    /\ arb_pc.at = "allocated"
    /\ LET convergence_trigger ==
               GaCheckConvergence(arb_controller, arb_pc.branch_count,
                                  arb_pc.utilities_close, arb_round)
       IN  IF convergence_trigger = AttributeError
           THEN /\ arb_pc' = [arb_pc EXCEPT !.at = "raised"]
                /\ UNCHANGED arb_events
           ELSE IF convergence_trigger # None
           THEN /\ arb_pc' = [arb_pc EXCEPT !.at = "synthesis"]
                /\ Yield("synthesis_triggered")
           ELSE IF arb_pc.branch_count >= 2
           THEN /\ arb_pc' = [arb_pc EXCEPT !.at = "debate"]
                /\ Yield("debate_round_started")
           ELSE /\ arb_pc' = ArbIdle
                /\ Yield("agent_completed")
    /\ UNCHANGED <<arb_controller, arb_round, arbRest>>

(* trigger_synthesis: phase_changed *)
ArbSynthesis ==
    /\ arb_pc.at = "synthesis"
    /\ arb_pc' = [arb_pc EXCEPT !.at = "ending"]
    /\ Yield("phase_changed")
    /\ UNCHANGED <<arb_controller, arb_round, arbRest>>

(* coordinate_debate_round: debate_round_completed *)
ArbDebate ==
    /\ arb_pc.at = "debate"
    /\ arb_pc' = [arb_pc EXCEPT !.at = "ending"]
    /\ Yield("debate_round_completed")
    /\ UNCHANGED <<arb_controller, arb_round, arbRest>>

(* agent_completed: run returns *)
ArbComplete ==
    /\ arb_pc.at = "ending"
    /\ arb_pc' = ArbIdle
    /\ Yield("agent_completed")
    /\ UNCHANGED <<arb_controller, arb_round, arbRest>>

ArbInit ==
    /\ InitLock /\ InitPhase /\ InitCtl /\ InitDet /\ InitStream /\ InitGa
    /\ InitGraph /\ InitAca /\ InitPareto /\ InitPath /\ InitPub
    /\ arb_controller \in BOOLEAN
    /\ arb_round = 0
    /\ arb_pc = ArbIdle
    /\ arb_events = <<>>

ArbNext ==
    \/ \E branch_count \in 0..MaxBranches, utilities_close \in BOOLEAN :
           ArbStart(branch_count, utilities_close)
    \/ ArbParetoFront
    \/ ArbAllocate
    \/ ArbCheckConvergence
    \/ ArbSynthesis
    \/ ArbDebate
    \/ ArbComplete

ArbSpec == ArbInit /\ [][ArbNext]_vars

----------------------------------------------------------------------------
(* Steps of the lock service, by branch and caller *)

AcquireBy(b, x) ==
    \/ /\ x \in Agents
       /\ ret'.op = "acquire_agent_lock"
       /\ \E t \in 0..MaxReqTtl : AcquireAgentLock(b, x, t)
    \/ /\ x \in Users
       /\ ret'.op = "request_user_lock"
       /\ \E t \in 0..MaxReqTtl : RequestUserLock(b, x, t)

ReleaseBy(b, x) == ret'.op = "release_lock" /\ ReleaseLock(b, x)

ExtendBy(b, x) ==
    /\ ret'.op = "extend_lock_ttl"
    /\ \E e \in 1..MaxExtra : ExtendLockTtl(b, x, e)

InterruptStep == \E u \in Users : InterruptDelete(u) \/ InterruptSet(u)

Held(b) == lock[b] # NoLock

----------------------------------------------------------------------------
(* C1: mutual exclusion per branch. An acquire_agent_lock or              *)
(* request_user_lock on a branch returns true only when the branch has no  *)
(* lock record (the previous holder's record was released, expired or     *)
(* removed by a global interrupt), and the record it leaves names the     *)
(* caller, so two actors never hold a grant on one branch at once.         *)
C1_MutualExclusion ==
    [][\A b \in BranchIds, x \in Actors :
          (AcquireBy(b, x) /\ ret'.val = TRUE)
              => /\ ~Held(b)
                 /\ lock'[b].holder_id = x
                 /\ \A c \in BranchIds \ {b} : lock'[c] = lock[c]]_vars

C1_Witness ==
    /\ ret = Ret("acquire_agent_lock", TRUE)
    /\ \E b \in BranchIds : lock[b].lock_type = AGENT_WRITE

(* C2: acquire_agent_lock on a branch that has a lock record, whoever     *)
(* holds it (another agent, a user, a global pause, the caller itself),   *)
(* returns false and leaves the record and its TTL unchanged.             *)
C2_AcquireFailsWhenLocked ==
    [][\A b \in BranchIds, a \in Agents, t \in 0..MaxReqTtl :
          (Held(b) /\ ret'.op = "acquire_agent_lock" /\ AcquireAgentLock(b, a, t))
              => (ret'.val = FALSE /\ lock' = lock)]_vars

C2_Witness ==
    /\ ret = Ret("acquire_agent_lock", FALSE)
    /\ \E b \in BranchIds : Held(b) /\ lock[b].holder_id \in Agents

(* C3: release_lock with a holder id different from the holder id of the  *)
(* branch's record returns false and leaves the record in place.          *)
C3_ReleaseNonMatching ==
    [][\A b \in BranchIds, h \in Actors :
          (Held(b) /\ lock[b].holder_id # h /\ ReleaseBy(b, h))
              => (ret'.val = FALSE /\ lock' = lock)]_vars

(* release_lock returned false although every branch has a record: the    *)
(* holder id did not match                                                 *)
C3_Witness ==
    /\ ret = Ret("release_lock", FALSE)
    /\ \A b \in BranchIds : Held(b)

(* C4: while a record held by H exists, no acquire, request, release or   *)
(* extend issued by an actor other than H changes it; a record changes    *)
(* only by its holder's release or extend, by the passage of time, or by  *)
(* a global interrupt.                                                     *)
C4_OnlyInterruptOverrides ==
    [][\A b \in BranchIds :
          (Held(b) /\ lock'[b] # lock[b]) =>
                /\ \A x \in Actors \ {lock[b].holder_id} :
                      ~(AcquireBy(b, x) \/ ReleaseBy(b, x) \/ ExtendBy(b, x))
                /\ \/ Tick
                   \/ ReleaseBy(b, lock[b].holder_id)
                   \/ ExtendBy(b, lock[b].holder_id)
                   \/ InterruptStep]_vars

(* an extend by a non-holder was refused while every branch's record has  *)
(* more than a second left                                                 *)
C4_Witness ==
    /\ ret = Ret("extend_lock_ttl", FALSE)
    /\ \A b \in BranchIds : Held(b) /\ lock[b].ttl >= 2

(* C7: extend_lock_ttl never changes the holder; with no record or a      *)
(* non-matching holder id it returns false and leaves the TTL unchanged;  *)
(* the TTL changes only when it returns true, and then does not shrink.   *)
C7_ExtendOnlyByHolder ==
    [][\A b \in BranchIds, h \in Actors, e \in 1..MaxExtra :
          (ret'.op = "extend_lock_ttl" /\ ExtendLockTtl(b, h, e)) =>
             /\ lock'[b].holder_id = lock[b].holder_id
             /\ lock'[b].lock_type = lock[b].lock_type
             /\ (~Held(b) \/ lock[b].holder_id # h)
                    => (ret'.val = FALSE /\ lock' = lock)
             /\ lock'[b].ttl # lock[b].ttl
                    => (ret'.val = TRUE /\ lock[b].holder_id = h)
             /\ ret'.val = TRUE => lock'[b].ttl >= lock[b].ttl]_vars

C7_Witness ==
    /\ ret = Ret("extend_lock_ttl", TRUE)
    /\ \E b \in BranchIds : lock[b].ttl = MaxTtl

(* C8: request_user_lock on a branch an agent holds returns false and     *)
(* leaves the agent's record unchanged; it writes a record only when the  *)
(* branch has none, and that record is tagged user_write.                 *)
C8_UserLockRespectsAgent ==
    [][\A b \in BranchIds, u \in Users, t \in 0..MaxReqTtl :
          (ret'.op = "request_user_lock" /\ RequestUserLock(b, u, t)) =>
             /\ lock[b].lock_type = AGENT_WRITE
                    => (ret'.val = FALSE /\ lock' = lock)
             /\ lock'[b] # lock[b]
                    => /\ ~Held(b)
                       /\ ret'.val = TRUE
                       /\ lock'[b].lock_type = USER_WRITE
                       /\ lock'[b].holder_id = u]_vars

C8_Witness ==
    /\ ret = Ret("request_user_lock", FALSE)
    /\ \A b \in BranchIds : lock[b].lock_type = AGENT_WRITE

----------------------------------------------------------------------------
(* trigger_global_interrupt(session, user_id) returns in this step *)
InterruptCompletes(u) ==
    /\ ret'.op = "trigger_global_interrupt"
    /\ intr'[u].pc = "idle"
    /\ TriggerGlobalInterrupt(u) \/ InterruptSet(u)

(* C5: when trigger_global_interrupt returns, every branch of the session *)
(* carries a global_pause record and get_lock_state reports PAUSED for it. *)
C5_InterruptPausesAll ==
    [][\A u \in Users :
          InterruptCompletes(u)
              => \A b \in branches :
                    /\ lock'[b].lock_type = GLOBAL_PAUSE
                    /\ GetLockState(lock', b) = PAUSED]_vars

(* C6: every lock record carries a finite TTL; an acquire on a branch     *)
(* without a record succeeds; and the record of a holder that crashed     *)
(* (issues no release or extend any more) eventually disappears.          *)
C6_CrashedHolderExpires ==
    /\ [](\A b \in BranchIds : Held(b) => lock[b].ttl >= 1)
    /\ [][\A b \in BranchIds, x \in Actors :
             (~Held(b) /\ AcquireBy(b, x))
                 => (ret'.val = TRUE /\ lock'[b].holder_id = x)]_vars
    /\ \A b \in BranchIds, h \in Actors :
          (h \in crashed /\ Held(b) /\ lock[b].holder_id = h)
              ~> ~(Held(b) /\ lock[b].holder_id = h)

(* a branch is locked by a global pause whose holder has crashed *)
C6_Witness ==
    \E b \in BranchIds :
        /\ lock[b].lock_type = GLOBAL_PAUSE
        /\ lock[b].holder_id \in crashed

(* C9: every write to a branch's nodes is made by the actor that holds    *)
(* the branch's lock at that moment.                                       *)
C9_WritesByLockHolder ==
    [][\A w \in Actors, b \in BranchIds :
          CreateNode(w, b) => (Held(b) /\ lock[b].holder_id = w)]_vars

----------------------------------------------------------------------------
(* Position of a phase in Divergence, Filtering, Convergence, Compilation *)
PhaseIndex(p) ==
    CASE p = "divergence"  -> 1
      [] p = "filtering"   -> 2
      [] p = "convergence" -> 3
      [] p \in {"completed", "compilation"} -> 4
      [] OTHER -> 0

StageIndex(pc) ==
    CASE pc = "idle" -> -1
      [] pc = "initialization" -> 0
      [] OTHER -> PhaseIndex(pc)

(* the steps of AgentOrchestrator.run that enter a stage *)
OrchestratorStage ==
    \/ OrchestratorStart
    \/ OrchestratorDivergence
    \/ OrchestratorFiltering
    \/ OrchestratorConvergence

----------------------------------------------------------------------------
(* the run has ended: its generator returned or raised *)
RunEnded == orch_pc \in {"completed", "raised"}

(* C11: no run of the pipeline ends without having entered Compilation   *)
(* and completed: a run that has ended has emitted                         *)
(* orchestration_completed, which follows the compilation stage.           *)
C11_RunReachesCompilation ==
    RunEnded => orch_pc = "completed"

----------------------------------------------------------------------------
(* C12: once the number of recorded rounds is at least max_rounds, the    *)
(* convergence check returns the max_rounds trigger, whatever the          *)
(* positions and entropies recorded, for every max_rounds of at least 1.   *)
C12_MaxRoundsFires ==
    (/\ ret.op = "check_oscillation"
     /\ max_rounds >= 1
     /\ round_count >= max_rounds)
        => ret.val = "max_rounds"

(* the trigger the strict order MaxRounds, Oscillation, EntropyStagnation *)
(* reports for the rounds recorded in the controller                       *)
FirstTriggerInOrder ==
    IF CheckMaxRounds(round_count, max_rounds) THEN "max_rounds"
    ELSE IF CheckSimilarityOscillation(position_history) THEN "oscillation"
    ELSE IF ControllerEntropyStagnates(entropy_history) THEN "entropy_stagnation"
    ELSE None

SeveralConditionsHold ==
    LET m == IF CheckMaxRounds(round_count, max_rounds) THEN 1 ELSE 0
        o == IF CheckSimilarityOscillation(position_history) THEN 1 ELSE 0
        e == IF ControllerEntropyStagnates(entropy_history) THEN 1 ELSE 0
    IN  m + o + e >= 2

(* C13: when several of the conditions MaxRounds, Oscillation and         *)
(* EntropyStagnation hold at once, the convergence check reports the       *)
(* earliest of them in that order.                                         *)
C13_StrictOrder ==
    (ret.op = "check_oscillation" /\ SeveralConditionsHold)
        => ret.val = FirstTriggerInOrder

(* every round's entropy is lower than the one before by at least the     *)
(* threshold                                                               *)
Decreasing(eh) ==
    \A i \in 2..Len(eh) : eh[i-1] - eh[i] >= EntropyThreshold

NoPairDecreases(eh) ==
    /\ Len(eh) >= StagnationRounds
    /\ LET recent == LastN(eh, StagnationRounds)
       IN  \A i \in 2..Len(recent) :
              recent[i-1] - recent[i] < EntropyThreshold

(* C15: whenever at least stagnation_rounds entropies are recorded and no *)
(* consecutive pair of the last stagnation_rounds decreases by the         *)
(* threshold (flat or rising entropy included), the convergence check      *)
(* fires entropy stagnation, unless the round ceiling fires before it.     *)
C15_StagnationFires ==
    (/\ ret.op = "check_oscillation"
     /\ NoPairDecreases(entropy_history)
     /\ ~CheckMaxRounds(round_count, max_rounds))
        => ret.val = "entropy_stagnation"

(* the condition of the oscillation trigger, over rounds r-2, r-1, r *)
OscillationCondition(ph) ==
    /\ Len(ph) >= 3
    /\ \E b \in DetBranches :
          LET r == Len(ph)
              sim(i, j) == ComputePositionSimilarity(GetPosition(ph[i], b),
                                                     GetPosition(ph[j], b))
          IN  /\ SimAbove(sim(r-2, r))
              /\ SimBelow(sim(r-2, r-1))
              /\ SimBelow(sim(r-1, r))

C17_ResetClears ==
    [][/\ (ret'.op = "reset" /\ Reset) =>
            /\ round_count' = 0
            /\ position_history' = <<>>
            /\ entropy_history' = <<>>
            /\ max_rounds' = max_rounds
       /\ (ret.op = "reset" /\ ret'.op = "check_oscillation"
              /\ CheckOscillation) =>
            ret'.val = ControllerTrigger(0, <<>>, max_rounds)]_vars

(* a controller built with max_rounds = 3 was reset and then checked *)
C17_Witness ==
    /\ ret = Ret("check_oscillation", None)
    /\ max_rounds = 3
    /\ round_count = 0
    /\ entropy_history = <<>>

----------------------------------------------------------------------------
(* C18: within the session every event carries an id strictly greater    *)
(* than the id of every event emitted before it.                           *)
C18_EventIdsIncrease ==
    \A i, j \in 1..Len(published) :
        i < j => published[i] < published[j]

(* C19: a consumer that re-subscribed with the id of the last event it    *)
(* saw is handed the events published after that id, in publication order  *)
(* and each exactly once: what it has received since is the run of events  *)
(* that follows that id.                                                   *)
C19_ResumeReplaysInOrder ==
    (sub.pc # "none" /\ sub.resumed_at >= 0) =>
        /\ sub.resumed_at + Len(received) <= Len(published)
        /\ received = SubSeq(published, sub.resumed_at + 1,
                             sub.resumed_at + Len(received))

----------------------------------------------------------------------------
(* C20: for every list of branches and every Pareto front, the allocations *)
(* returned by compute_resource_allocation sum to at most the budget.      *)
C20_AllocationWithinBudget ==
    allocation # <<>> => SumValues(allocation[1]) <= ResourceBudget

----------------------------------------------------------------------------
(* C21 as stated: when no branch receives the Pareto boost, each branch    *)
(* gets budget * utility_i / sum of utilities and the allocations sum to   *)
(* exactly the budget.                                                     *)
GaCalled == allocation # <<>>

NoBoost == \A i \in 1..Len(ga_branches) : ga_branches[i].id \notin ga_front

DistinctIds ==
    \A i, j \in 1..Len(ga_branches) :
        ga_branches[i].id = ga_branches[j].id => i = j

ProportionalShare(i) ==
    FMul(FDiv(GetUtility(ga_branches[i]), SumUtility(ga_branches)),
         ResourceBudget)

ProportionalCase ==
    GaCalled /\ NoBoost /\ DistinctIds /\ SumUtility(ga_branches) > 0

EightyTwenty ==
    <<[id |-> "1", utility_score |-> (8 * Grid) \div 10],
      [id |-> "2", utility_score |-> (2 * Grid) \div 10]>>

----------------------------------------------------------------------------
(* C22: the arbiter built by the orchestrator has a controller; its        *)
(* check_convergence returns that controller's decision (a trigger or      *)
(* none) and completes normally, so that the arbiter round goes on.        *)
C22_ControllerDecides ==
    [][OrchestratorGA =>
          /\ \A utilities_close \in BOOLEAN :
                GaCheckConvergence(TRUE, Cardinality(branches),
                                   utilities_close, 1)
                    = ControllerTrigger(round_count, entropy_history,
                                        max_rounds)
          /\ orch_pc' # "raised"]_vars

----------------------------------------------------------------------------
(* C23: the session contains exactly one Goal node, which is at layer 0    *)
(* and has no parent.                                                      *)
GoalNodes == {n \in DOMAIN graph.nodes : graph.nodes[n].type = "goal"}

C23_ExactlyOneGoal ==
    /\ Cardinality(GoalNodes) = 1
    /\ \A n \in GoalNodes : /\ graph.nodes[n].layer = 0
                            /\ graph.nodes[n].parent_id = NoParent

----------------------------------------------------------------------------
(* C24: after any interleaving of node and edge operations, the source and *)
(* the target of every stored edge are nodes of the session: a node goes   *)
(* only together with the edges that reference it.                         *)
EdgeEndsExist(session) ==
    \A e \in DOMAIN session.edges :
        /\ session.edges[e].source_id \in DOMAIN session.nodes
        /\ session.edges[e].target_id \in DOMAIN session.nodes

C24_EdgeEndsExist == EdgeEndsExist(graph)

(* a delete_node has removed a node together with an edge that another     *)
(* operation, still running, was handed before                             *)
C24_Witness ==
    /\ ret = Ret("delete_node", "True")
    /\ \E c \in Clients :
          /\ loaded[c] # <<>>
          /\ \E e \in DOMAIN loaded[c][1].edges :
                /\ loaded[c][1].edges[e].target_id \notin DOMAIN graph.nodes
                /\ e \notin DOMAIN graph.edges

----------------------------------------------------------------------------
(* C25: the stored edges contain no self-loop and no two edges of the same *)
(* source, target and type; a create_edge that would add one is rejected   *)
(* and leaves the graph unchanged.                                         *)
NoSelfLoop ==
    \A e \in DOMAIN graph.edges :
        graph.edges[e].source_id # graph.edges[e].target_id

NoDuplicateEdge ==
    \A e, f \in DOMAIN graph.edges :
        graph.edges[e] = graph.edges[f] => e = f

C25_NoSelfLoopNoDuplicate == NoSelfLoop /\ NoDuplicateEdge

----------------------------------------------------------------------------
(* C26: whenever the audit finds a cycle among the edges, run goes on to   *)
(* its report, the report holds the cycle and is_compliant is false.       *)
CycleFound == DetectCircularDependencies(aca_edges).cycles # <<>>

C26_CycleFlagsNonCompliant ==
    (aca_events # <<>> /\ CycleFound) =>
        /\ Len(aca_events) = 3
        /\ aca_events[2].type = "audit_report"
        /\ aca_events[2].cycles = DetectCircularDependencies(aca_edges).cycles
        /\ ~aca_events[2].is_compliant
        /\ ~aca_events[3].is_compliant

----------------------------------------------------------------------------
(* C27: compute_pareto_front returns exactly the candidates that no other  *)
(* candidate dominates; an empty list gives an empty front, all-equal      *)
(* candidates are returned in full.                                        *)
AtLeastAsGood(a, b, obj, direction) ==
    IF direction = "max"
    THEN GetObjective(a, obj) >= GetObjective(b, obj)
    ELSE GetObjective(a, obj) <= GetObjective(b, obj)

(* a is at least as good as b on every objective and strictly better on one *)
IsDominator(a, b) ==
    /\ \A k \in 1..Len(Objectives) :
          AtLeastAsGood(a, b, Objectives[k], pf_directions[k])
    /\ \E k \in 1..Len(Objectives) :
          ~AtLeastAsGood(b, a, Objectives[k], pf_directions[k])

HasDominator(i) ==
    \E j \in 1..Len(pf_solutions) : IsDominator(pf_solutions[j], pf_solutions[i])

RECURSIVE Undominated(_)
Undominated(i) ==
    IF i > Len(pf_solutions) THEN <<>>
    ELSE (IF HasDominator(i) THEN <<>> ELSE <<pf_solutions[i]>>)
         \o Undominated(i + 1)

C27_FrontIsUndominated ==
    pf_front # <<>> =>
        /\ pf_front[1] = Undominated(1)
        /\ pf_solutions = <<>> => pf_front[1] = <<>>
        /\ (\A i, j \in 1..Len(pf_solutions) :
                \A k \in 1..Len(Objectives) :
                    GetObjective(pf_solutions[i], Objectives[k])
                        = GetObjective(pf_solutions[j], Objectives[k]))
              => pf_front[1] = pf_solutions

C27_Witness ==
    /\ pf_front # <<>>
    /\ Len(pf_solutions) = MaxCandidates
    /\ Len(pf_front[1]) = 2
    /\ pf_front[1][1] # pf_front[1][2]

----------------------------------------------------------------------------
(* C28: compute_pareto_front (the optimizer's and the arbiter's) returns   *)
(* the same set of candidates for every ordering of the candidate list.    *)
Reordered(list, perm) == [i \in 1..Len(list) |-> list[perm[i]]]

Orderings == Permutations(1..Len(pf_solutions))

C28_FrontIgnoresOrder ==
    /\ pf_front # <<>> =>
          \A perm \in Orderings :
              Range(ComputeParetoFront(Reordered(pf_solutions, perm),
                                       pf_directions))
                  = Range(pf_front[1])
    /\ ga_pareto # <<>> =>
          \A perm \in Orderings :
              Range(GaComputeParetoFront(Reordered(pf_solutions, perm)))
                  = Range(ga_pareto[1])

C28_Witness ==
    /\ pf_front # <<>> /\ ga_pareto # <<>>
    /\ Len(pf_front[1]) = 2 /\ Len(ga_pareto[1]) = 2
    /\ \E perm \in Orderings :
          /\ ComputeParetoFront(Reordered(pf_solutions, perm), pf_directions)
                # pf_front[1]
          /\ GaComputeParetoFront(Reordered(pf_solutions, perm))
                # ga_pareto[1]

----------------------------------------------------------------------------
(* The cut sets and the paths of a graph, stated without enumerating paths *)

(* the nodes reached from Goal along at most d decompose edges that avoid  *)
(* the nodes in removed                                                    *)
RECURSIVE ReachedWithin(_, _, _)
ReachedWithin(g, removed, d) ==
    IF d = 0 THEN {GoalNode} \ removed
    ELSE LET before == ReachedWithin(g, removed, d - 1)
         IN  before \cup
             {e.target_id : e \in {x \in g.edges :
                                      /\ x.type = "decompose"
                                      /\ x.source_id \in before
                                      /\ x.target_id \notin removed}}

Leaves(g) ==
    {n \in g.nodes :
        ~ \E e \in g.edges : e.type = "decompose" /\ e.source_id = n}

(* {v}: v is neither Goal nor the leaf and lies on every path of at most d *)
(* edges from Goal to some leaf that has such a path                       *)
CutNodesWithin(g, d) ==
    {{v} : v \in {n \in g.nodes \ {GoalNode} :
                    \E leaf \in Leaves(g) \ {n} :
                        /\ leaf \in ReachedWithin(g, {}, d)
                        /\ leaf \notin ReachedWithin(g, {n}, d)}}

(* every simple path has fewer edges than the graph has nodes *)
CutNodes(g) == CutNodesWithin(g, Cardinality(g.nodes))

Diamond ==
    [nodes |-> PathNodes,
     edges |-> {Decompose(0, 1), Decompose(0, 2),
                Decompose(1, 3), Decompose(2, 3)}]

BothAnalysed == pa_analysis # <<>> /\ sa_analysis # <<>>

(* C29: both compute_minimal_cut_sets return exactly the sets {v} of the   *)
(* nodes v, other than Goal and the leaf, that lie on every path from Goal *)
(* to some leaf.                                                           *)
C29_CutSetsOfEveryPath ==
    BothAnalysed =>
        /\ pa_analysis[1].minimal_cut_sets = CutNodes(pa_graph)
        /\ sa_analysis[1].minimal_cut_sets = CutNodes(pa_graph)

(* C29, amended: SensitivityAnalyzer returns those sets; PathAnalyzer      *)
(* returns them for the paths of at most max_depth edges, the only ones    *)
(* find_all_paths enumerates; the diamond has no cut set and the chain     *)
(* Goal -> 1 -> 2 has the cut set {1}.                                     *)
C29_CutSetsWithinDepth ==
    BothAnalysed =>
        /\ sa_analysis[1].minimal_cut_sets = CutNodes(pa_graph)
        /\ pa_analysis[1].minimal_cut_sets
               = CutNodesWithin(pa_graph, DefaultMaxDepth)
        /\ pa_graph = Diamond =>
               /\ pa_analysis[1].minimal_cut_sets = {}
               /\ sa_analysis[1].minimal_cut_sets = {}
        /\ pa_graph = [Chain(2) EXCEPT !.nodes = PathNodes] =>
               /\ pa_analysis[1].minimal_cut_sets = {{1}}
               /\ sa_analysis[1].minimal_cut_sets = {{1}}

(* a leaf with two paths that share an intermediate node has been analysed *)
C29_Witness ==
    /\ BothAnalysed
    /\ pa_analysis[1].minimal_cut_sets # {}
    /\ \E leaf \in FindLeafNodes(pa_graph) :
           Cardinality(SaFindAllPaths(pa_graph, GoalNode, leaf, {})) > 1
    /\ Cardinality(pa_analysis[1].minimal_cut_sets)
           < Cardinality(UNION {Inner(p) :
                 p \in UNION {SaFindAllPaths(pa_graph, GoalNode, leaf, {}) :
                                 leaf \in FindLeafNodes(pa_graph)}})

(* the simple paths of g from Goal to leaf along decompose edges, for the  *)
(* graphs over PathNodes                                                    *)
SimplePathsTo(g, leaf) ==
    {p \in UNION {[1..n -> g.nodes] : n \in 1..Cardinality(g.nodes)} :
        /\ p[1] = GoalNode
        /\ p[Len(p)] = leaf
        /\ \A i, j \in DOMAIN p : i # j => p[i] # p[j]
        /\ \A i \in 1..(Len(p) - 1) : Decompose(p[i], p[i + 1]) \in g.edges}

(* report tells the critical from the redundant paths as the claim does *)
CriticalIffOnlyPath(g, report) ==
    LET to_leaf == [leaf \in Leaves(g) |-> SimplePathsTo(g, leaf)]
    IN  /\ report.critical_paths =
               UNION {IF Cardinality(to_leaf[leaf]) = 1 THEN to_leaf[leaf]
                      ELSE {} : leaf \in Leaves(g)}
        /\ report.redundant_paths =
               UNION {IF Cardinality(to_leaf[leaf]) > 1 THEN to_leaf[leaf]
                      ELSE {} : leaf \in Leaves(g)}

(* C30: a path from Goal to a leaf is reported critical iff it is the only *)
(* path from Goal to that leaf, and every path to a leaf reachable by more *)
(* than one path is reported redundant, by PathAnalyzer.analyze and by     *)
(* SensitivityAnalyzer alike.                                              *)
C30_CriticalIffOnlyPath ==
    (BothAnalysed /\ pa_graph \in SmallGraphs) =>
        /\ CriticalIffOnlyPath(pa_graph, pa_analysis[1])
        /\ CriticalIffOnlyPath(pa_graph, sa_analysis[1])

(* the number of paths of at most d edges from Goal to n, in a graph       *)
(* without cycles                                                          *)
RECURSIVE DagPathsWithin(_, _, _)
DagPathsWithin(g, n, d) ==
    IF n = GoalNode THEN 1
    ELSE IF d = 0 THEN 0
    ELSE LET parents == {e.source_id : e \in {x \in g.edges :
                                                 /\ x.type = "decompose"
                                                 /\ x.target_id = n}}
         IN  SumOver([parent \in parents |->
                         DagPathsWithin(g, parent, d - 1)], parents)

(* the number of simple paths of at most d edges from Goal to leaf *)
PathCountWithin(g, leaf, d) ==
    IF g \in SmallGraphs
    THEN Cardinality({p \in SimplePathsTo(g, leaf) : Len(p) <= d + 1})
    ELSE DagPathsWithin(g, leaf, d)

(* g has a leaf with one path and a leaf with several, of at most d edges *)
SingleAndMultiWithin(g, d) ==
    /\ \E leaf \in Leaves(g) : PathCountWithin(g, leaf, d) = 1
    /\ \E leaf \in Leaves(g) : PathCountWithin(g, leaf, d) > 1

FinitePositive(ratio) == ~ ratio.inf /\ ratio.num > 0 /\ ratio.den > 0

IsOne(ratio) == ~ ratio.inf /\ ratio.num = ratio.den

(* C31: both compute_redundancy_ratio return a finite positive ratio on    *)
(* every graph with a single-path leaf and a multi-path leaf, and 1.0 on a *)
(* graph without leaves.                                                   *)
C31_RatioFinitePositive ==
    BothAnalysed =>
        \A ratio \in {pa_analysis[1].redundancy_ratio,
                      sa_analysis[1].redundancy_ratio} :
            /\ SingleAndMultiWithin(pa_graph, Cardinality(pa_graph.nodes))
                   => FinitePositive(ratio)
            /\ Leaves(pa_graph) = {} => IsOne(ratio)

(* C31, amended: SensitivityAnalyzer does so; PathAnalyzer does so when    *)
(* the single-path leaf and the multi-path leaf are such counting the      *)
(* paths of at most max_depth edges.                                       *)
C31_RatioWithinDepth ==
    BothAnalysed =>
        /\ SingleAndMultiWithin(pa_graph, Cardinality(pa_graph.nodes))
               => FinitePositive(sa_analysis[1].redundancy_ratio)
        /\ SingleAndMultiWithin(pa_graph, DefaultMaxDepth)
               => FinitePositive(pa_analysis[1].redundancy_ratio)
        /\ Leaves(pa_graph) = {} =>
               /\ IsOne(pa_analysis[1].redundancy_ratio)
               /\ IsOne(sa_analysis[1].redundancy_ratio)

(* a small graph with a single-path leaf and a two-path leaf was analysed *)
C31_Witness ==
    /\ BothAnalysed
    /\ pa_graph \in SmallGraphs
    /\ SingleAndMultiWithin(pa_graph, DefaultMaxDepth)
    /\ pa_analysis[1].redundancy_ratio.num = 2
    /\ sa_analysis[1].redundancy_ratio.den = 1

GetLockStateOn(b) == ret'.op = "get_lock_state" /\ CallGetLockState(b)

(* C32: get_lock_state leaves the lock records as they are and reports     *)
(* Observation for an agent's record, Paused for a GlobalPause record, and *)
(* Editable exactly when the branch has no record.                         *)
C32_EditableIffNoRecord ==
    [][\A b \in BranchIds :
          GetLockStateOn(b) =>
              /\ lock' = lock
              /\ (Held(b) /\ lock[b].lock_type = AGENT_WRITE)
                     => ret'.val = OBSERVATION
              /\ (Held(b) /\ lock[b].lock_type = GLOBAL_PAUSE)
                     => ret'.val = PAUSED
              /\ ret'.val = EDITABLE <=> ~ Held(b)]_vars

(* C32, amended: Editable is reported when the branch has no record and    *)
(* also when its record is a user's.                                       *)
C32_EditableIffNoAgentNoPause ==
    [][\A b \in BranchIds :
          GetLockStateOn(b) =>
              /\ lock' = lock
              /\ (Held(b) /\ lock[b].lock_type = AGENT_WRITE)
                     => ret'.val = OBSERVATION
              /\ (Held(b) /\ lock[b].lock_type = GLOBAL_PAUSE)
                     => ret'.val = PAUSED
              /\ ret'.val = EDITABLE <=>
                     (~ Held(b) \/ lock[b].lock_type = USER_WRITE)]_vars

(* get_lock_state has reported Editable for a branch a user holds *)
C32_Witness ==
    /\ ret.op = "get_lock_state"
    /\ ret.val = EDITABLE
    /\ \A b \in BranchIds : Held(b) /\ lock[b].lock_type = USER_WRITE

Scoring == <<"agent_started", "pareto_front_computed", "resources_allocated">>

(* C33: each round of the arbiter scores first (front, then allocation),   *)
(* then either schedules a debate round or synthesizes, never both, and    *)
(* always ends with agent_completed: no round is left unfinished.          *)
C33_RoundEndsIdle ==
    /\ arb_pc.at # "raised"
    /\ (arb_pc.at = "idle" /\ arb_events # <<>>) =>
           \/ arb_events = Scoring \o <<"debate_round_started",
                                        "debate_round_completed",
                                        "agent_completed">>
           \/ arb_events = Scoring \o <<"synthesis_triggered",
                                        "phase_changed", "agent_completed">>

(* the rounds OscillationDetector reads: the last three positions, the     *)
(* last stagnation_rounds entropies, and whether one more round precedes   *)
DetectorWindow == StagnationRounds + 1

(* C34: the recorded positions and entropies are a bounded sliding window: *)
(* after any number of recorded rounds the controller and the detector     *)
(* hold at most the most recent rounds they read.                          *)
C34_HistoryIsWindow ==
    /\ Len(position_history) <= ControllerWindow
    /\ Len(entropy_history) <= ControllerWindow
    /\ Len(det_position_history) <= DetectorWindow
    /\ Len(det_entropy_history) <= DetectorWindow

(* an interrupt has deleted the record of b and not yet written its pause *)
Replacing(b) ==
    \E u \in Users : intr[u].pc = "set" /\ Head(intr[u].todo) = b

(* C35: while trigger_global_interrupt replaces the record of a branch, no *)
(* acquire_agent_lock and no request_user_lock on that branch returns true *)
C35_OverrideIsAtomic ==
    [][\A b \in BranchIds, x \in Actors :
          (Replacing(b) /\ AcquireBy(b, x)) => ret'.val = FALSE]_vars

(* no lock call is under way *)
Quiescent ==
    /\ \A x \in Actors : publishing[x] = NoPub
    /\ \A u \in Users : intr[u].pc = "idle"

(* C36: once every acquire, release and global interrupt under way has     *)
(* completed, the lock_changed published last for a branch carries the     *)
(* state of the branch's lock record.                                      *)
C36_LastNotificationIsState ==
    Quiescent =>
        \A b \in BranchIds :
            lock_events[b] # "none" => lock_events[b] = GetLockState(lock, b)

(* b carries the pause record of a completed interrupt of u *)
PausedBy(b, u) ==
    /\ intr[u].pc = "idle"
    /\ Held(b)
    /\ lock[b].lock_type = GLOBAL_PAUSE
    /\ lock[b].holder_id = u

(* C37: after trigger_global_interrupt(session, U) has completed,          *)
(* request_user_lock by U on a branch that interrupt paused returns true.  *)
C37_InterrupterGetsLock ==
    [][\A b \in BranchIds, u \in Users :
          (PausedBy(b, u) /\ AcquireBy(b, u)) => ret'.val = TRUE]_vars

(* C38: overlapping writes to one session do not lose one another: a node  *)
(* leaves the stored graph only by a delete_node and an edge only by a     *)
(* delete_edge or a delete_node, never by another entity's write.          *)
C38_NoLostWrite ==
    [][/\ \A n \in DOMAIN graph.nodes :
             n \notin DOMAIN graph'.nodes => ret'.op = "delete_node"
       /\ \A e \in DOMAIN graph.edges :
             e \notin DOMAIN graph'.edges
                 => ret'.op \in {"delete_edge", "delete_node"}]_vars


(* C39: the status of a session changes only along draft -> active,       *)
(* active -> paused, paused -> active and active or paused -> completed;  *)
(* any other call leaves the status as it was, and a completed session    *)
(* keeps its status for ever.                                             *)
StatusTransitions ==
    { <<"draft", "active">>, <<"active", "paused">>, <<"paused", "active">>,
      <<"active", "completed">>, <<"paused", "completed">> }

C39_StatusFollowsLifecycle ==
    [][status' # status => <<status, status'>> \in StatusTransitions]_vars


(* path is a simple path of g from from_node_id to to_node_id along        *)
(* decompose edges                                                         *)
IsSimplePath(g, path, from_node_id, to_node_id) ==
    /\ Len(path) >= 1
    /\ path[1] = from_node_id
    /\ path[Len(path)] = to_node_id
    /\ \A i, j \in DOMAIN path : i # j => path[i] # path[j]
    /\ \A i \in 1..(Len(path) - 1) :
           Decompose(path[i], path[i + 1]) \in g.edges

HasCycle(g) ==
    \E n \in g.nodes :
        \E child \in Children(g, n) : SaFindAllPaths(g, child, n, {}) # {}

(* C40: find_all_paths and _find_all_paths end on every graph, cycles      *)
(* included (their calls nest no deeper than the graph has nodes, and      *)
(* find_all_paths no deeper than max_depth), and every path they return is *)
(* a simple path from from_node_id to to_node_id along decompose edges.    *)
C40_OnlySimplePaths ==
    pa_found # <<>> =>
        LET found == pa_found[1]
        IN  /\ found.nesting <= Cardinality(pa_graph.nodes)
            /\ found.nesting <= found.max_depth
            /\ found.sa_nesting <= Cardinality(pa_graph.nodes)
            /\ \A path \in found.paths \cup found.sa_paths :
                   IsSimplePath(pa_graph, path, found.from_node_id,
                                found.to_node_id)

(* a search that started on a cycle and found a path leaving it *)
C40_Witness ==
    /\ pa_found # <<>>
    /\ HasCycle(pa_graph)
    /\ \E child \in Children(pa_graph, pa_found[1].from_node_id) :
           SaFindAllPaths(pa_graph, child, pa_found[1].from_node_id, {}) # {}
    /\ pa_found[1].from_node_id # pa_found[1].to_node_id
    /\ pa_found[1].paths # {}
    /\ pa_found[1].sa_paths # {}

====
